---- MODULE Spec2Model ----
(***************************************************************************)
(* A model of flogin's JSON-RPC client (flogin/jsonrpc/client.py), of the  *)
(* event wrapper and dispatch of flogin/plugin.py and of the error         *)
(* classification of flogin/jsonrpc/errors.py.                             *)
(*                                                                         *)
(* The program runs on one asyncio event loop: every action below is one   *)
(* synchronous section of one task, from one suspension point to the next. *)
(***************************************************************************)
EXTENDS Integers, Sequences, FiniteSets, TLC

----------------------------------------------------------------------------
(* Bounds of the model. *)

\* outbound request() calls (each caller calls request() once)
NumCallers == 2
\* inbound Request frames the host sends
NumInbound == 2
\* ids: the host assigns ids in 1..MaxId, outbound calls are issued while the
\* counter is below MaxId
MaxId == 3
\* slugs of Result objects that handlers can return
NumSlugs == 1
\* search handlers registered
NumHandlers == 3
\* items in a list given to the result normalization
MaxLen == 2
\* the error classification is run on every code this far around the
\* reserved server-error range
Margin == 2
\* the values secrets.token_hex may give, and the operations done on one Result
NumTokens == 3
MaxOps == 4
\* the search handlers a Query is tried on, and the conditions in an
\* AllCondition or AnyCondition
NumCondHandlers == 2
NumSubConditions == 2
\* the longest query text given to a SearchGroup
MaxText == 5
\* settings set by the plugin, responses built, and queries being handled at once
MaxSets == 3
MaxResponses == 3
MaxOpenQueries == 2
\* arguments a cached function is called with, calls made and caches cleared
NumArgs == 2
MaxCalls == 3
MaxClears == 2
\* the lines the host writes to the plugin's input
NumLines == 3
\* the metadata the host may send, the initialize requests it sends and the
\* reads of plugin.metadata outside the events
NumMetadata == 2
MaxInits == 2
MaxAccesses == 2
\* the instances of a class with a cached property and the reads of it
NumInstances == 2
MaxGets == 4

Callers == 1..NumCallers
Reqs == 1..NumInbound
Ids == 1..MaxId
Slugs == 1..NumSlugs
Payloads == {"p1", "p2"}

----------------------------------------------------------------------------
(* flogin/jsonrpc/enums.py: ErrorCode *)

parser_error == -32700
invalid_request == -32600
method_not_found == -32601
invalid_params == -32602
internal_error == -32603
server_error_start == -32000
server_error_end == -32099

----------------------------------------------------------------------------
(* Values handlers return, and the frames written to the host. *)

\* a Python value as far as the client looks at it: its type, and the
\* attributes of the three Response classes
\* (results: the list of Results of a QueryResponse or of a Python list;
\* data: the data of an ErrorResponse)
Val(t, h, c, rs, n) ==
    [type |-> t, hide |-> h, code |-> c, results |-> rs, nores |-> n, data |-> "None"]

PyNone == Val("None", FALSE, 0, <<>>, FALSE)
PyBool(b) == Val("bool", b, 0, <<>>, FALSE)
\* a value that is no Response, no bool and not None (a str, a dict, ...)
Junk == Val("str", FALSE, 0, <<>>, FALSE)

\* ExecuteResponse.__init__: hide defaults to True
ExecuteResponse(h) == Val("ExecuteResponse", h, 0, <<>>, FALSE)
ExecuteResponseDefault == ExecuteResponse(TRUE)

\* ErrorResponse(code, message, data)
ErrorResponse(c) == Val("ErrorResponse", FALSE, c, <<>>, FALSE)

\* ErrorResponse.internal_error: the code is server_error_start
ErrorResponse_internal_error == ErrorResponse(server_error_start)

\* QueryResponse(results, ...): results is the list of Results, or None when
\* the search handler's task swallowed a cancellation
QueryResponse(rs) == Val("QueryResponse", FALSE, 0, rs, FALSE)
QueryResponseOfNone == Val("QueryResponse", FALSE, 0, <<>>, TRUE)

\* (every value taken for a Response)
IsBaseResponseAlways(v) == TRUE
\* isinstance(result, BaseResponse)
IsBaseResponse(v) == v.type \in {"ExecuteResponse", "ErrorResponse", "QueryResponse"}

\* to_dict() of a QueryResponse iterates self.results: it raises on None
CanSerialize(v) == ~v.nores

\* (MethodNotFound with InternalError's code)
MethodNotFoundAsInternal == ErrorResponse(internal_error)
\* JsonRPCException.to_response: ErrorResponse(self.code, ...)
MethodNotFound_to_response == ErrorResponse(method_not_found)
InternalError_to_response == ErrorResponse(internal_error)

\* BaseResponse.to_message(id): {"jsonrpc": "2.0", "id": id} | to_dict().
\* req is the inbound Request the frame answers (0: none), kept for the
\* properties only.
to_message(v, id, req) ==
    [req |-> req, id |-> id,
     kind |-> IF v.type = "ErrorResponse" THEN "error" ELSE "result",
     type |-> v.type, code |-> v.code, hide |-> v.hide, results |-> v.results]

\* Request(method, rid, params).to_message(rid)
Request_to_message(rid) ==
    [req |-> 0, id |-> rid, kind |-> "request", type |-> "Request",
     code |-> 0, hide |-> FALSE, results |-> <<>>]

----------------------------------------------------------------------------
(* flogin/jsonrpc/errors.py *)

NoData == "None"

\* an exception object: its class and its code, message and data attributes
Exc(cls, code, message, data) == [cls |-> cls, code |-> code, message |-> message, data |-> data]
NoExc == Exc("none", 0, "", NoData)

\* the class attribute `code` of the five specialized exceptions, in the
\* order get_exception_from_json tries them
ClsCode(cls) ==
    CASE cls = "ParserError" -> parser_error
      [] cls = "InvalidParams" -> invalid_params
      [] cls = "InvalidRequest" -> invalid_request
      [] cls = "MethodNotFound" -> method_not_found
      [] cls = "InternalError" -> internal_error

SpecializedClasses == <<"ParserError", "InvalidParams", "InvalidRequest", "MethodNotFound", "InternalError">>

\* data.get("data"): None when the key is absent
PayloadData(data) == IF data.hasdata THEN data.data ELSE NoData

\* (the same with the data forgotten)
get_exception_from_json_no_data(data) ==
    LET code == data.code
        hit == {i \in 1..Len(SpecializedClasses) : code = ClsCode(SpecializedClasses[i])}
    IN  IF hit # {}
        THEN LET cls == SpecializedClasses[CHOOSE i \in hit : \A j \in hit : i <= j]
             IN  Exc(cls, ClsCode(cls), data.message, NoData)
        ELSE IF server_error_start <= code /\ code <= server_error_end
        THEN Exc("FlowError", code, data.message, NoData)
        ELSE Exc("JsonRPCException", code, data.message, NoData)

get_exception_from_json(data) ==
    LET code == data.code
        hit == {i \in 1..Len(SpecializedClasses) : code = ClsCode(SpecializedClasses[i])}
    IN  IF hit # {}
        THEN \* for cls in (...): if code == cls.code: return cls(**kwargs)
             LET cls == SpecializedClasses[CHOOSE i \in hit : \A j \in hit : i <= j]
             IN  Exc(cls, ClsCode(cls), data.message, PayloadData(data))
        ELSE IF server_error_start <= code /\ code <= server_error_end
        THEN Exc("FlowError", code, data.message, PayloadData(data))
        ELSE Exc("JsonRPCException", code, data.message, PayloadData(data))

\* an ErrorPayload: {"code": .., "message": .., "data"?: ..}
ErrorPayload(code, message, hasdata, data) ==
    [code |-> code, message |-> message, hasdata |-> hasdata, data |-> data]

----------------------------------------------------------------------------
(* Result normalization: flogin/utils.py coro_or_gen,                      *)
(* flogin/jsonrpc/results.py Result.from_anything and Result.slug,         *)
(* Plugin._coro_or_gen_to_results                                          *)

\* dict helpers
Pop(d, k) == [x \in DOMAIN d \ {k} |-> d[x]]
Put(d, k, v) == [x \in DOMAIN d \cup {k} |-> IF x = k THEN v ELSE d[x]]
EmptyDict == [x \in {} |-> 0]

SetMax(S) == IF S = {} THEN 0 ELSE CHOOSE x \in S : \A y \in S : y <= x

\* a Result object: its identity, its title and the slug its cached_property
\* holds (0: slug has not been accessed yet)
Result(obj, title, slug) == [obj |-> obj, title |-> title, slug |-> slug]
NoResult == Result(0, "", 0)

\* what a handler gives for one result: a Result, a dict with a "title", a
\* str or an int
ResultItem(res) == [kind |-> "Result", res |-> res, s |-> "", n |-> 0]
DictItem(title) == [kind |-> "dict", res |-> NoResult, s |-> title, n |-> 0]
StrItem(s) == [kind |-> "str", res |-> NoResult, s |-> s, n |-> 0]
IntItem(n) == [kind |-> "int", res |-> NoResult, s |-> "", n |-> n]

\* str(item)
str(item) == IF item.kind = "int" THEN ToString(item.n) ELSE item.s

\* a Python list of items, and one item on its own
PyList(items) == Val("list", FALSE, 0, items, FALSE)
PyItem(item) == Val("item", FALSE, 0, <<item>>, FALSE)

\* what a search handler's callback(query) is: a coroutine that returns v, or
\* an async generator that yields the items of v
Coroutine(v) == [is |-> "coroutine", v |-> v]
AsyncGen(items) == [is |-> "asyncgen", v |-> PyList(items)]

\* coro_or_gen: `await coro`, or `[item async for item in coro]`
coro_or_gen(coro) == IF coro.is = "coroutine" THEN coro.v ELSE PyList(coro.v.results)

\* (from_anything that takes every item for its str())
from_anything_str(item, fresh) == Result(fresh, str(item), 0)
\* Result.from_anything: a dict goes through from_dict (a new Result with
\* title=data.get("title")), a Result is returned as it is, anything else
\* becomes Result(str(item)); fresh is the identity of a new object
from_anything(item, fresh) ==
    IF item.kind = "dict" THEN Result(fresh, item.s, 0)
    ELSE IF item.kind = "Result" THEN item.res
    ELSE Result(fresh, str(item), 0)

\* (a property computed at every access)
Result_slug_uncached(cached, token) == token
\* Result.slug, a cached_property: secrets.token_hex(15) on the first access
\* (token: the value token_hex gives), the cached value after it
Result_slug(cached, token) == IF cached # 0 THEN cached ELSE token

\* (a loop that registers nothing)
register_nothing(registry, s, res) == registry
\* self._results[res.slug] = res
register(registry, s, res) == Put(registry, s, res)

\* the loop of _coro_or_gen_to_results over raw_results[i..]: registry is
\* self._results, results the list built so far, heap the slugs cached so far
\* in the objects met, next the next unused identity and token
RECURSIVE results_loop(_, _, _, _, _, _)
results_loop(raw_results, i, registry, results, heap, next) ==
    IF i > Len(raw_results)
    THEN [out |-> PyList(results), registry |-> registry]
    ELSE LET made == from_anything(raw_results[i], next)
             cached == IF made.obj \in DOMAIN heap THEN heap[made.obj] ELSE made.slug
             s == Result_slug(cached, next)
             res == [made EXCEPT !.slug = s]
         IN  results_loop(raw_results, i + 1, register(registry, s, res),
                          Append(results, res), Put(heap, made.obj, s), next + 1)

\* (normalization that wraps an ErrorResponse like any other single value)
coro_or_gen_to_results_wrap(coro, registry, next) ==
    LET raw_results == coro_or_gen(coro)
    IN  IF raw_results.type = "None"
        THEN [out |-> PyList(<<>>), registry |-> registry]
        ELSE results_loop(IF raw_results.type = "list" THEN raw_results.results
                          ELSE IF raw_results.type = "item" THEN <<raw_results.results[1]>>
                          ELSE <<StrItem("ErrorResponse")>>,
                          1, registry, <<>>, EmptyDict, next)

\* Plugin._coro_or_gen_to_results: None gives [], an ErrorResponse is
\* returned as it is, a value that is no list is wrapped in one, and every
\* item is converted, registered under its slug and appended
coro_or_gen_to_results(coro, registry, next) ==
    LET raw_results == coro_or_gen(coro)
    IN  IF raw_results.type = "None"
        THEN [out |-> PyList(<<>>), registry |-> registry]
        ELSE IF raw_results.type = "ErrorResponse"
        THEN [out |-> raw_results, registry |-> registry]
        ELSE results_loop(IF raw_results.type = "list" THEN raw_results.results
                          ELSE <<raw_results.results[1]>>,
                          1, registry, <<>>, EmptyDict, next)

----------------------------------------------------------------------------
(* State *)

VARIABLES
    current_request_id, \* JsonRPCClient._current_request_id
    requests,           \* JsonRPCClient.requests: id -> the caller whose future it holds
    tasks,              \* JsonRPCClient.tasks: id -> the inbound request whose handler task it holds
    results,            \* Plugin._results: slug -> the Result registered under it
    callers,            \* the callers of request(): where each stands, its id, what its future got
    inbound,            \* the process_input task of each inbound Request frame
    handler,            \* the handler task (Plugin._run_event) of each inbound Request
    wire,               \* the frames written to the writer, in order
    owed,               \* callers that were suspended when a success Response with their id was delivered
    cancel_succeeded,   \* inbound requests whose registered task a cancellation notification cancelled
    ignore_cancellations, \* JsonRPCClient.ignore_cancellations
    delivered,          \* the line process_input handled in this step (kind "none": another step)
    reader,             \* start_listening: "listening", or "stopped" once an exception has left it
    result_obj,         \* one Result: its cached slug and what was read from it
    cond_st,            \* one Query going through the loop of process_search_handlers
    group_st,           \* one Query given to a SearchGroup
    settings_st,        \* one Settings object and the responses built from it
    cache_st,           \* the caches of flogin.caching and the calls made
    loop_st,            \* start_listening on a stream, and the tasks of the event loop
    meta_st,            \* Plugin._metadata and the initialize requests
    prop_st,            \* one caching.cached_property and the instances of its class
    err_in,             \* the ErrorPayload given to get_exception_from_json
    err_out,            \* the exception it returned
    norm_in,            \* the value given to _coro_or_gen_to_results
    norm_registry,      \* Plugin._results when it is called
    norm_out            \* what it returned, and Plugin._results after it

vars == <<current_request_id, requests, tasks, results, callers, inbound, handler,
          wire, owed, cancel_succeeded, ignore_cancellations, delivered, reader, result_obj, cond_st, group_st,
          settings_st, cache_st, loop_st, meta_st, prop_st, err_in, err_out,
          norm_in, norm_registry, norm_out>>

client_vars == <<current_request_id, requests, tasks, results, callers, inbound,
                 handler, wire, owed, cancel_succeeded, ignore_cancellations, delivered, reader>>
err_vars == <<err_in, err_out>>
norm_vars == <<norm_in, norm_registry, norm_out>>
\* the variables of the functions checked on their own
lib_vars == <<result_obj, cond_st, group_st, settings_st, cache_st, loop_st, meta_st, prop_st>>
\* what the steps of each of them leave alone
slug_frame == <<client_vars, err_vars, norm_vars, cond_st, group_st, settings_st, cache_st, loop_st, meta_st, prop_st>>
cond_frame == <<client_vars, err_vars, norm_vars, result_obj, group_st, settings_st, cache_st, loop_st, meta_st, prop_st>>
group_frame == <<client_vars, err_vars, norm_vars, result_obj, cond_st, settings_st, cache_st, loop_st, meta_st, prop_st>>
settings_frame == <<client_vars, err_vars, norm_vars, result_obj, cond_st, group_st, cache_st, loop_st, meta_st, prop_st>>
cache_frame == <<client_vars, err_vars, norm_vars, result_obj, cond_st, group_st, settings_st, loop_st, meta_st, prop_st>>
loop_frame == <<client_vars, err_vars, norm_vars, result_obj, cond_st, group_st, settings_st, cache_st, meta_st, prop_st>>
meta_frame == <<client_vars, err_vars, norm_vars, result_obj, cond_st, group_st, settings_st, cache_st, loop_st, prop_st>>
prop_frame == <<client_vars, err_vars, norm_vars, result_obj, cond_st, group_st, settings_st, cache_st, loop_st, meta_st>>
pure_vars == <<err_vars, norm_vars, lib_vars>>

NoMsg == [id |-> 0, payload |-> "none"]
\* what a step handled: the kind and id of the line, the exception the client
\* logged for it and the exception that left process_input
Line(kind, id, logged, raised) == [kind |-> kind, id |-> id, logged |-> logged, raised |-> raised]
NoFrame == Line("none", 0, "none", "none")

NoErrorPayload == ErrorPayload(0, "", FALSE, NoData)
NoCoro == Coroutine(PyNone)
NoNorm == [out |-> PyNone, registry |-> EmptyDict]

InitCaller == [st |-> "idle", rid |-> 0, res |-> NoMsg, exc |-> NoExc]
InitInbound == [pc |-> "unread", id |-> 0, method |-> "none", slug |-> 0, in_registry |-> FALSE]
\* a handler task: where the task of _schedule_event stands (st), what its
\* coroutine did (outcome, returned) and what _run_event returned (result);
\* the task that process_search_handlers or process_context_menus awaits
\* (inner, inner_outcome, inner_raw: the value its callback resolved to,
\* inner_result); the search handlers whose condition was evaluated and whose
\* callback was called; the callbacks run (invoked) and the error hooks run
\* (hooks, by name; hook_error: the exception given to the last one)
InitHandler ==
    [st |-> "none", kind |-> "none", must_cancel |-> FALSE, outcome |-> "none",
     inner |-> "none", inner_cancel |-> FALSE, inner_outcome |-> "none",
     inner_raw |-> PyNone, inner_result |-> PyNone,
     result |-> PyNone, returned |-> PyNone, invoked |-> 0, hooks |-> <<>>,
     hook_error |-> "None", registered |-> FALSE,
     evaluated |-> <<>>, called |-> <<>>]

\* JsonRPCClient.__init__ and Plugin.__init__, with the plugin's option
\* ignore_cancellation_requests
InitClientWith(ignore_cancellation_requests) ==
    /\ current_request_id = 1
    /\ requests = EmptyDict
    /\ tasks = EmptyDict
    /\ results = EmptyDict
    /\ callers = [c \in Callers |-> InitCaller]
    /\ inbound = [r \in Reqs |-> InitInbound]
    /\ handler = [r \in Reqs |-> InitHandler]
    /\ wire = <<>>
    /\ owed = {}
    /\ cancel_succeeded = {}
    /\ ignore_cancellations = ignore_cancellation_requests
    /\ delivered = NoFrame
    /\ reader = "listening"

\* the option's default: plugin.options.get("ignore_cancellation_requests", False)
InitClient == InitClientWith(FALSE)

\* no call of get_exception_from_json, none of _coro_or_gen_to_results
ErrIdle == err_in = NoErrorPayload /\ err_out = NoExc
NormIdle == norm_in = NoCoro /\ norm_registry = EmptyDict /\ norm_out = NoNorm

\* a Result just made: no slug cached, nothing read from it
NewResult == [slug |-> 0, read |-> <<>>]
\* a Query just made: Query.__init__ sets the condition data to None; no
\* handler tried yet
CondNone == [kind |-> "None", by |-> 0, items |-> <<>>]
NoConds == [handlers |-> <<>>, i |-> 0, data |-> CondNone, called |-> 0, seen |-> CondNone]
NoGroup == <<>>
\* no Settings object made yet: Plugin._settings_are_populated is False
SettingKeys == {"k1", "k2"}
NoValue == 0
NoChanges == [key \in SettingKeys |-> NoValue]
NoSettings ==
    [populated |-> FALSE, no_update |-> FALSE, data |-> NoChanges, changes |-> NoChanges,
     made |-> <<>>, flushes |-> 0, open |-> 0, responses |-> <<>>]
\* the cached objects of the plugin: class and the name given to the
\* decorator ("None" when none was given), under which __cached_objects__
\* keeps them
CachedObjects ==
    <<[cls |-> "CachedCallable", name |-> "n"],
      [cls |-> "CachedCoro", name |-> "n"],
      [cls |-> "CachedGen", name |-> "None"]>>
CacheArgs == 1..NumArgs
NotCached == 0
EmptyCache == [args \in CacheArgs |-> NotCached]
\* every cache empty, no call made; runs counts the runs of the wrapped
\* functions, cleared the clears of each object
NoCache ==
    [cache |-> [obj \in DOMAIN CachedObjects |-> EmptyCache],
     cleared |-> [obj \in DOMAIN CachedObjects |-> 0],
     clears |-> 0, runs |-> 0, overlap |-> FALSE, calls |-> <<>>]
\* nothing done with the objects checked on their own
\* nothing read from a stream, no initialize request, no cached property
NoLoop == <<>>
NoMeta == <<>>
NoProp == <<>>
MoreIdle == loop_st = NoLoop /\ meta_st = NoMeta /\ prop_st = NoProp

LibIdle ==
    /\ result_obj = NewResult
    /\ cond_st = NoConds
    /\ group_st = NoGroup
    /\ settings_st = NoSettings
    /\ cache_st = NoCache
    /\ MoreIdle

Init ==
    /\ InitClient
    /\ ErrIdle
    /\ NormIdle
    /\ LibIdle

----------------------------------------------------------------------------
(* Outbound calls: JsonRPCClient.request, handle_result, handle_error *)

\* the request_id property getter: increment, then return
next_request_id(cur) == cur + 1

\* request(): the future is stored under the new id and the frame is written
\* (drain=False: no suspension) before the caller suspends on the future
request(c) ==
    /\ callers[c].st = "idle"
    /\ \A x \in Callers : x < c => callers[x].st # "idle"
    /\ current_request_id < MaxId
    /\ LET rid == next_request_id(current_request_id)
       IN  /\ current_request_id' = rid
           /\ requests' = Put(requests, rid, c)
           /\ wire' = Append(wire, Request_to_message(rid))
           /\ callers' = [callers EXCEPT ![c] = [@ EXCEPT !.st = "waiting", !.rid = rid]]
    /\ delivered' = NoFrame
    /\ UNCHANGED <<tasks, results, inbound, handler, owed, cancel_succeeded, ignore_cancellations, reader, pure_vars>>

\* the caller of request() is cancelled while it awaits the future (its own
\* timeout, asyncio.wait_for, or the cancellation of its task): the future is
\* cancelled with it, and request() has nothing that takes it out of
\* self.requests
request_abandoned(c) ==
    /\ callers[c].st = "waiting"
    /\ callers' = [callers EXCEPT ![c].st = "cancelled"]
    /\ delivered' = NoFrame
    /\ UNCHANGED <<current_request_id, requests, tasks, results, inbound, handler, wire, owed,
                   cancel_succeeded, ignore_cancellations, reader, pure_vars>>

\* start_listening is still in its `async for line in reader`
listening == reader = "listening"

\* Future.set_result / set_exception raise InvalidStateError on a future that
\* is already done
FutureDone(c) == callers[c].st # "waiting"

\* (a result for an unknown id given to the caller that has waited longest)
handle_result_to_anyone(rid, payload) ==
    /\ listening
    /\ LET known == rid \in DOMAIN requests
           waiting == {c \in Callers : callers[c].st = "waiting"}
           c == IF known THEN requests[rid]
                ELSE IF waiting # {} THEN CHOOSE w \in waiting : \A x \in waiting : w <= x
                ELSE 0
       IN  IF c # 0
           THEN /\ requests' = Pop(requests, IF known THEN rid ELSE callers[c].rid)
                /\ callers' = IF FutureDone(c) THEN callers
                              ELSE [callers EXCEPT ![c] =
                                       [@ EXCEPT !.st = "resolved",
                                                 !.res = [id |-> rid, payload |-> payload]]]
           ELSE UNCHANGED <<requests, callers>>
    /\ owed' = owed \cup {c \in Callers : callers[c].st = "waiting" /\ callers[c].rid = rid}
    /\ delivered' = Line("result", rid, "none", "none")
    /\ UNCHANGED <<current_request_id, tasks, results, inbound, handler, wire,
                   cancel_succeeded, ignore_cancellations, reader, pure_vars>>

\* handle_result(result): pop the future and resolve it with the message;
\* InvalidStateError is swallowed; an unknown id is logged
handle_result(rid, payload) ==
    /\ listening
    /\ IF rid \in DOMAIN requests
       THEN LET c == requests[rid]
            IN  /\ requests' = Pop(requests, rid)
                /\ callers' = IF FutureDone(c) THEN callers
                              ELSE [callers EXCEPT ![c] =
                                       [@ EXCEPT !.st = "resolved",
                                                 !.res = [id |-> rid, payload |-> payload]]]
       ELSE UNCHANGED <<requests, callers>>
    /\ owed' = owed \cup {c \in Callers : callers[c].st = "waiting" /\ callers[c].rid = rid}
    /\ delivered' = Line("result", rid, "none", "none")
    /\ UNCHANGED <<current_request_id, tasks, results, inbound, handler, wire,
                   cancel_succeeded, ignore_cancellations, reader, pure_vars>>

\* handle_error(id, error): pop the future and reject it with
\* get_exception_from_json(error.to_dict()["error"]); an unknown id is logged.
\* (to_dict() always carries a "data" key; set_exception on a done future
\* raises InvalidStateError out of process_input, after the pop.)
handle_error(rid, code) ==
    /\ listening
    /\ IF rid \in DOMAIN requests
       THEN LET c == requests[rid]
                e == get_exception_from_json(ErrorPayload(code, "msg", TRUE, NoData))
            IN  /\ requests' = Pop(requests, rid)
                /\ callers' = IF FutureDone(c) THEN callers
                              ELSE [callers EXCEPT ![c] = [@ EXCEPT !.st = "rejected", !.exc = e]]
       ELSE UNCHANGED <<requests, callers>>
    /\ delivered' = Line("error", rid, "none",
                         IF rid \in DOMAIN requests /\ FutureDone(requests[rid])
                         THEN "InvalidStateError" ELSE "none")
    /\ UNCHANGED <<current_request_id, tasks, results, inbound, handler, wire, owed,
                   cancel_succeeded, ignore_cancellations, reader, pure_vars>>

----------------------------------------------------------------------------
(* Inbound requests: JsonRPCClient.handle_request, Plugin.process_action,  *)
(* Plugin.dispatch                                                         *)

\* the events registered in Plugin._events that the model's host calls:
\* "query" and "context_menu" are the default on_query and on_context_menu,
\* "event" an event the plugin registered
RegisteredEvents == {"query", "context_menu", "event"}
Methods == RegisteredEvents \cup {"flogin.action", "unknown"}

\* what handle_request finds to run: process_action's task when the method
\* starts with "flogin.action" and the slug is in the registry, else
\* dispatch's task when "on_<method>" is a registered event, else nothing
dispatch_target(method, slug, registry) ==
    IF method = "flogin.action" /\ slug \in DOMAIN registry THEN "action"
    ELSE IF method \in RegisteredEvents THEN method
    ELSE "none"

\* the ids of the inbound Requests read so far: the host numbers its
\* requests itself and gives each its own id
HostIdsUsed == {inbound[r].id : r \in {x \in Reqs : inbound[x].pc # "unread"}}

\* (a read loop that takes the next line when the earlier lines' processing
\* has ended)
can_read_one_at_a_time(r) ==
    /\ inbound[r].pc = "unread"
    /\ \A x \in Reqs : x < r => inbound[x].pc \in {"done", "failed", "cancelled"}
\* start_listening: every line read gets a process_input task of its own, in
\* the order read; the loop awaits none of them
can_read(r) ==
    /\ listening
    /\ inbound[r].pc = "unread"
    /\ \A x \in Reqs : x < r => inbound[x].pc # "unread"

\* (a handle_request that awaits the task without storing it in self.tasks)
handle_request_unregistered(r, id, method, slug) ==
    /\ can_read(r)
    /\ id \notin HostIdsUsed
    /\ current_request_id' = id
    /\ LET target == dispatch_target(method, slug, results)
       IN  IF target = "none"
           THEN /\ wire' = Append(wire, to_message(MethodNotFound_to_response, id, r))
                /\ inbound' = [inbound EXCEPT ![r] =
                                  [pc |-> "done", id |-> id, method |-> method, slug |-> slug,
                                   in_registry |-> slug \in DOMAIN results]]
                /\ UNCHANGED <<tasks, handler>>
           ELSE /\ UNCHANGED tasks
                /\ handler' = [handler EXCEPT ![r] =
                                  [@ EXCEPT !.st = "scheduled", !.kind = target, !.registered = TRUE]]
                /\ inbound' = [inbound EXCEPT ![r] =
                                  [pc |-> "awaiting", id |-> id, method |-> method, slug |-> slug,
                                   in_registry |-> slug \in DOMAIN results]]
                /\ UNCHANGED wire
    /\ delivered' = NoFrame
    /\ UNCHANGED <<requests, results, callers, owed, cancel_succeeded,
                   ignore_cancellations, reader, pure_vars>>

\* process_input on a Request frame: handle_request up to its first
\* suspension. The request_id setter takes the host's id; an unknown method
\* is answered at once, otherwise the task that dispatch created is stored in
\* self.tasks and handle_request suspends on it.
handle_request(r, id, method, slug) ==
    /\ can_read(r)
    /\ id \notin HostIdsUsed
    /\ current_request_id' = id
    /\ LET target == dispatch_target(method, slug, results)
       IN  IF target = "none"
           THEN /\ wire' = Append(wire, to_message(MethodNotFound_to_response, id, r))
                /\ inbound' = [inbound EXCEPT ![r] =
                                  [pc |-> "done", id |-> id, method |-> method, slug |-> slug,
                                   in_registry |-> slug \in DOMAIN results]]
                /\ UNCHANGED <<tasks, handler>>
           ELSE /\ tasks' = Put(tasks, id, r)
                /\ handler' = [handler EXCEPT ![r] =
                                  [@ EXCEPT !.st = "scheduled", !.kind = target, !.registered = TRUE]]
                /\ inbound' = [inbound EXCEPT ![r] =
                                  [pc |-> "awaiting", id |-> id, method |-> method, slug |-> slug,
                                   in_registry |-> slug \in DOMAIN results]]
                /\ UNCHANGED wire
    /\ delivered' = NoFrame
    /\ UNCHANGED <<requests, results, callers, owed, cancel_succeeded,
                   ignore_cancellations, reader, pure_vars>>

\* the rest of handle_request, once `await task` returns or raises: a
\* Response is written as it is, any other value as an InternalError; an
\* exception of the task (or of to_message) ends process_input with nothing
\* written, and so does the task's cancellation
finish_request(r) ==
    /\ inbound[r].pc = "awaiting"
    /\ handler[r].st \in {"done", "raised", "cancelled"}
    /\ LET h == handler[r]
           id == inbound[r].id
       IN  CASE h.st = "done" /\ IsBaseResponse(h.result) /\ CanSerialize(h.result) ->
                  /\ wire' = Append(wire, to_message(h.result, id, r))
                  /\ inbound' = [inbound EXCEPT ![r].pc = "done"]
             [] h.st = "done" /\ IsBaseResponse(h.result) /\ ~CanSerialize(h.result) ->
                  /\ inbound' = [inbound EXCEPT ![r].pc = "failed"]
                  /\ UNCHANGED wire
             [] h.st = "done" /\ ~IsBaseResponse(h.result) ->
                  /\ wire' = Append(wire, to_message(InternalError_to_response, id, r))
                  /\ inbound' = [inbound EXCEPT ![r].pc = "done"]
             [] h.st = "raised" ->
                  /\ inbound' = [inbound EXCEPT ![r].pc = "failed"]
                  /\ UNCHANGED wire
             [] h.st = "cancelled" ->
                  /\ inbound' = [inbound EXCEPT ![r].pc = "cancelled"]
                  /\ UNCHANGED wire
    /\ delivered' = NoFrame
    /\ UNCHANGED <<current_request_id, requests, tasks, results, callers, handler, owed,
                   cancel_succeeded, ignore_cancellations, reader, pure_vars>>

----------------------------------------------------------------------------
(* Handler tasks: Plugin._run_event around the callbacks                   *)

\* what one run of user code does up to its next suspension point
Ret(v) == [how |-> "return", v |-> v]
Raise == [how |-> "raise", v |-> PyNone]
Await == [how |-> "await", v |-> PyNone]

\* the exception a callback or a condition raises, and the one a hook raises
HandlerError == "HandlerError"
HookError == "HookError"

\* default_events.on_error: ErrorResponse.internal_error(error)
on_error(event_method, error) == [ErrorResponse_internal_error EXCEPT !.data = error]

\* what an event callback that the plugin registered returns
EventReturns == {ExecuteResponseDefault, PyNone}
\* what Result.callback returns: ExecuteResponse | bool | None, or anything
CallbackReturns ==
    {PyBool(TRUE), PyBool(FALSE), PyNone, ExecuteResponse(TRUE), ExecuteResponse(FALSE), Junk}
\* what the callback of a search handler (title: what tells its Results from
\* those of the others) or Result.context_menu resolves to: up to `room` new
\* Results, or an ErrorResponse
SearchReturns(title, room) ==
    {Coroutine(PyList([i \in 1..n |-> StrItem(title)])) : n \in 0..room}
        \cup {Coroutine(ErrorResponse_internal_error)}
\* an error hook (the on_error event, Result.on_error): the default returns
\* ErrorResponse.internal_error(error); a plugin's own hook returns what it
\* likes, or raises
HookOutcomes(error) == {Ret(on_error("on_error", error)), Ret(PyNone), Raise}
\* SearchHandler.on_error and Result.on_context_menu_error, whose value goes
\* through _coro_or_gen_to_results
SearchHookOutcomes(error) ==
    {Ret(Coroutine(on_error("on_error", error))), Ret(Coroutine(PyList(<<>>))), Raise}

UserOutcomes(kind, first) ==
    {Ret(v) : v \in (CASE kind = "action" -> CallbackReturns
                       [] kind = "event" -> EventReturns)}
        \cup {Raise} \cup (IF first THEN {Await} ELSE {})

\* _action_callback_wrapper: a bool becomes ExecuteResponse(hide=value), None
\* becomes ExecuteResponse(), anything else is returned as it is
\* (the same with None taken for a falsy bool)
action_callback_wrapper_falsy_none(value) ==
    IF value.type \in {"bool", "None"} THEN ExecuteResponse(value.hide)
    ELSE value
action_callback_wrapper(value) ==
    IF value.type = "bool" THEN ExecuteResponse(value.hide)
    ELSE IF value.type = "None" THEN ExecuteResponseDefault
    ELSE value

\* (every exception sent to the on_error event)
error_handler_generic(kind) == "on_error"
\* the error_handler _run_event is given for a task of this kind: the
\* Result's on_error (process_action), the search handler's on_error
\* (process_search_handlers), the Result's on_context_menu_error
\* (process_context_menus); MISSING, that is the on_error event, for dispatch
error_handler(kind) ==
    CASE kind = "action" -> "Result.on_error"
      [] kind = "search" -> "SearchHandler.on_error"
      [] kind = "menu" -> "Result.on_context_menu_error"
      [] OTHER -> "on_error"

\* (CancelledError handled like any exception)
run_event_cancelled_as_error(h) ==
    [h EXCEPT !.st = "done", !.outcome = "cancelled",
              !.hooks = Append(@, error_handler(h.kind)), !.hook_error = "CancelledError",
              !.result = on_error("on_error", "CancelledError")]
\* _run_event when CancelledError is thrown into its coroutine:
\* `except asyncio.CancelledError: pass`, the wrapper returns None
run_event_cancelled(h) ==
    [h EXCEPT !.st = "done", !.outcome = "cancelled", !.result = PyNone]

\* _run_event around an event callback or around _action_callback_wrapper,
\* after the outcome o of the user's coroutine (and k of the error hook, when
\* o is an exception): `return await coro(...)`, or the hook's value
run_event(h, o, k) ==
    CASE o.how = "await" -> [h EXCEPT !.st = "suspended"]
      [] o.how = "return" ->
            [h EXCEPT !.st = "done", !.outcome = "return", !.returned = o.v,
                      !.result = IF h.kind = "action" THEN action_callback_wrapper(o.v) ELSE o.v]
      [] o.how = "raise" ->
            [h EXCEPT !.hooks = Append(@, error_handler(h.kind)), !.hook_error = HandlerError,
                      !.outcome = "raise",
                      !.st = IF k.how = "raise" THEN "raised" ELSE "done",
                      !.result = k.v]

\* asyncio.create_task: the first steps of the tasks run in the order the
\* tasks were created, which is the order their Requests were read
started_in_order(r) == \A x \in Reqs : x < r => handler[x].st # "scheduled"

\* a step of the handler task of an action or of a registered event. A task
\* cancelled before its first step never enters _run_event; CancelledError
\* thrown at an await inside the callback is caught by _run_event, which then
\* returns None.
task_step(r) ==
    /\ handler[r].kind \in {"action", "event"}
    /\ handler[r].st \in {"scheduled", "suspended"}
    /\ handler[r].st = "scheduled" => started_in_order(r)
    /\ LET h == handler[r]
           first == h.st = "scheduled"
       IN  IF h.must_cancel
           THEN handler' = [handler EXCEPT ![r] =
                               IF first THEN [h EXCEPT !.st = "cancelled"]
                               ELSE run_event_cancelled(h)]
           ELSE \E o \in UserOutcomes(h.kind, first) :
                \E k \in (IF o.how = "raise" THEN HookOutcomes(HandlerError) ELSE {Raise}) :
                    handler' = [handler EXCEPT ![r] =
                                   run_event([h EXCEPT !.invoked = IF first THEN @ + 1 ELSE @], o, k)]
    /\ delivered' = NoFrame
    /\ UNCHANGED <<current_request_id, requests, tasks, results, callers, inbound, wire,
                   owed, cancel_succeeded, ignore_cancellations, reader, pure_vars>>

----------------------------------------------------------------------------
(* Queries and context menus: default_events.on_query,                     *)
(* Plugin.process_search_handlers, Plugin.process_context_menus            *)

\* Plugin._search_handlers once register_search_handler has appended the
\* handlers 1..n, in this order
search_handlers(n) == [i \in 1..n |-> i]

\* what handler.condition(query) does
CondOutcomes == {"true", "false", "raise"}

\* (the loop without its break: the last handler whose condition holds)
RECURSIVE search_loop_no_break(_, _, _, _)
search_loop_no_break(handlers, conds, i, evaluated) ==
    IF i > Len(handlers)
    THEN [selected |-> 0, evaluated |-> evaluated, raised |-> FALSE]
    ELSE LET hd == handlers[i]
             ev == Append(evaluated, [h |-> hd, c |-> conds[hd]])
             rest == search_loop_no_break(handlers, conds, i + 1, ev)
         IN  IF conds[hd] = "raise" THEN [selected |-> 0, evaluated |-> ev, raised |-> TRUE]
             ELSE IF conds[hd] = "true" /\ rest.selected = 0 /\ ~rest.raised
             THEN [rest EXCEPT !.selected = hd]
             ELSE rest

\* (the loop ending on the last handler when no condition held)
RECURSIVE search_loop_fallback(_, _, _, _)
search_loop_fallback(handlers, conds, i, evaluated) ==
    IF i > Len(handlers)
    THEN [selected |-> IF handlers = <<>> THEN 0 ELSE handlers[Len(handlers)],
          evaluated |-> evaluated, raised |-> FALSE]
    ELSE LET hd == handlers[i]
             ev == Append(evaluated, [h |-> hd, c |-> conds[hd]])
         IN  CASE conds[hd] = "true" -> [selected |-> hd, evaluated |-> ev, raised |-> FALSE]
               [] conds[hd] = "raise" -> [selected |-> 0, evaluated |-> ev, raised |-> TRUE]
               [] OTHER -> search_loop_fallback(handlers, conds, i + 1, ev)

\* the loop of process_search_handlers over self._search_handlers from the
\* i-th handler on: the first handler whose condition holds is selected and
\* the loop breaks; conds is what each handler's condition does on this
\* query, evaluated the conditions evaluated so far
RECURSIVE search_loop(_, _, _, _)
search_loop(handlers, conds, i, evaluated) ==
    IF i > Len(handlers)
    THEN [selected |-> 0, evaluated |-> evaluated, raised |-> FALSE]
    ELSE LET hd == handlers[i]
             ev == Append(evaluated, [h |-> hd, c |-> conds[hd]])
         IN  CASE conds[hd] = "true" -> [selected |-> hd, evaluated |-> ev, raised |-> FALSE]
               [] conds[hd] = "raise" -> [selected |-> 0, evaluated |-> ev, raised |-> TRUE]
               [] OTHER -> search_loop(handlers, conds, i + 1, ev)

\* the tokens and identities in use: the next one is new
UsedTokens ==
    DOMAIN results
        \cup {results[s].obj : s \in DOMAIN results}
        \cup UNION {{handler[r].inner_result.results[i].slug :
                        i \in 1..Len(handler[r].inner_result.results)} : r \in Reqs}
NextFresh == SetMax(UsedTokens) + 1

\* on_query: plugin._results.clear()
on_query_registry(registry) == EmptyDict

\* the first step of the on_query task: on_query clears the registry, then
\* process_search_handlers looks for the first handler whose condition holds;
\* with one it calls the handler's callback, schedules the task that runs it
\* and suspends on that task, with none it returns an empty QueryResponse; an
\* exception of a condition goes to the on_error event
query_step(r) ==
    /\ handler[r].kind = "query"
    /\ handler[r].st = "scheduled"
    /\ started_in_order(r)
    /\ LET h == handler[r]
       IN  IF h.must_cancel
           THEN /\ handler' = [handler EXCEPT ![r] = [h EXCEPT !.st = "cancelled"]]
                /\ UNCHANGED results
           ELSE /\ results' = on_query_registry(results)
                /\ \E n \in 0..NumHandlers :
                   \E conds \in [1..n -> CondOutcomes] :
                   \E k \in HookOutcomes(HandlerError) :
                      LET found == search_loop(search_handlers(n), conds, 1, <<>>)
                          g == [h EXCEPT !.evaluated = found.evaluated]
                      IN  handler' = [handler EXCEPT ![r] =
                            CASE found.raised ->
                                    [g EXCEPT !.hooks = Append(@, error_handler(h.kind)),
                                              !.hook_error = HandlerError, !.outcome = "raise",
                                              !.st = IF k.how = "raise" THEN "raised" ELSE "done",
                                              !.result = k.v]
                              [] ~found.raised /\ found.selected = 0 ->
                                    [g EXCEPT !.st = "done", !.outcome = "return",
                                              !.result = QueryResponse(<<>>)]
                              [] OTHER ->
                                    [g EXCEPT !.st = "awaitInner", !.inner = "scheduled",
                                              !.called = <<found.selected>>]]
    /\ delivered' = NoFrame
    /\ UNCHANGED <<current_request_id, requests, tasks, callers, inbound, wire,
                   owed, cancel_succeeded, ignore_cancellations, reader, pure_vars>>

\* the first step of the on_context_menu task: process_context_menus looks up
\* data[0] in the registry; with a Result it calls result.context_menu(),
\* schedules the task that runs it and suspends on that task; with no data or
\* no such Result it returns an empty QueryResponse
context_menu_step(r) ==
    /\ handler[r].kind = "context_menu"
    /\ handler[r].st = "scheduled"
    /\ started_in_order(r)
    /\ LET h == handler[r]
       IN  handler' = [handler EXCEPT ![r] =
             CASE h.must_cancel -> [h EXCEPT !.st = "cancelled"]
               [] ~h.must_cancel /\ inbound[r].slug \in DOMAIN results ->
                     [h EXCEPT !.st = "awaitInner", !.inner = "scheduled"]
               [] OTHER ->
                     [h EXCEPT !.st = "done", !.outcome = "return",
                               !.result = QueryResponse(<<>>)]]
    /\ delivered' = NoFrame
    /\ UNCHANGED <<current_request_id, requests, tasks, results, callers, inbound, wire,
                   owed, cancel_succeeded, ignore_cancellations, reader, pure_vars>>

\* the kind of the task that the on_query or on_context_menu task awaits
InnerKind(h) == IF h.kind = "query" THEN "search" ELSE "menu"
\* the title that tells the Results of the callback called from the others
InnerTitle(h) == IF h.kind = "query" THEN ToString(h.called[1]) ELSE "menu"

\* _run_event of the awaited task when CancelledError is thrown into
\* _coro_or_gen_to_results: it is swallowed and the task returns None
inner_cancelled(h) ==
    [h EXCEPT !.inner = "done", !.inner_outcome = "cancelled", !.inner_result = PyNone]

\* a step of the awaited task: _run_event around
\* _coro_or_gen_to_results(handler.callback(query)) with
\* _coro_or_gen_to_results(handler.on_error(query, e)) as the error hook, or
\* the same around result.context_menu() and result.on_context_menu_error(e)
inner_step(r) ==
    /\ handler[r].st = "awaitInner"
    /\ handler[r].inner \in {"scheduled", "suspended"}
    /\ LET h == handler[r]
           first == h.inner = "scheduled"
           room == NumSlugs + 1 - NextFresh
       IN  IF h.inner_cancel
           THEN /\ handler' = [handler EXCEPT ![r] =
                                  IF first THEN [h EXCEPT !.inner = "cancelled",
                                                          !.inner_outcome = "cancelled"]
                                  ELSE inner_cancelled(h)]
                /\ UNCHANGED results
           ELSE \E o \in {Ret(v) : v \in SearchReturns(InnerTitle(h), room)}
                            \cup {Raise} \cup (IF first THEN {Await} ELSE {}) :
                \E k \in (IF o.how = "raise" THEN SearchHookOutcomes(HandlerError) ELSE {Raise}) :
                  LET g == [h EXCEPT !.invoked = IF first THEN @ + 1 ELSE @]
                  IN  CASE o.how = "await" ->
                              /\ handler' = [handler EXCEPT ![r] = [g EXCEPT !.inner = "suspended"]]
                              /\ UNCHANGED results
                        [] o.how = "return" ->
                              LET n == coro_or_gen_to_results(o.v, results, NextFresh)
                              IN  /\ handler' = [handler EXCEPT ![r] =
                                        [g EXCEPT !.inner = "done", !.inner_outcome = "return",
                                                  !.inner_raw = coro_or_gen(o.v),
                                                  !.inner_result = n.out]]
                                  /\ results' = n.registry
                        [] o.how = "raise" /\ k.how = "raise" ->
                              /\ handler' = [handler EXCEPT ![r] =
                                    [g EXCEPT !.hooks = Append(@, error_handler(InnerKind(h))),
                                              !.hook_error = HandlerError,
                                              !.inner = "raised", !.inner_outcome = "raise"]]
                              /\ UNCHANGED results
                        [] o.how = "raise" /\ k.how # "raise" ->
                              LET n == coro_or_gen_to_results(k.v, results, NextFresh)
                              IN  /\ handler' = [handler EXCEPT ![r] =
                                        [g EXCEPT !.hooks = Append(@, error_handler(InnerKind(h))),
                                                  !.hook_error = HandlerError,
                                                  !.inner = "done", !.inner_outcome = "raise",
                                                  !.inner_raw = coro_or_gen(k.v),
                                                  !.inner_result = n.out]]
                                  /\ results' = n.registry
    /\ delivered' = NoFrame
    /\ UNCHANGED <<current_request_id, requests, tasks, callers, inbound, wire,
                   owed, cancel_succeeded, ignore_cancellations, reader, pure_vars>>

\* the on_query or on_context_menu task resumes from `results = await task`:
\* an ErrorResponse is returned as it is, anything else is wrapped in a
\* QueryResponse; CancelledError (the awaited task was cancelled, or this
\* task was cancelled after the awaited one finished) is swallowed by
\* _run_event, an exception of the awaited task goes to the on_error event
outer_wake(r) ==
    /\ handler[r].st = "awaitInner"
    /\ handler[r].inner \in {"done", "raised", "cancelled"}
    /\ LET h == handler[r]
       IN  \E k \in (IF h.inner = "raised" /\ ~h.must_cancel
                     THEN HookOutcomes(HookError) ELSE {Raise}) :
             handler' = [handler EXCEPT ![r] =
               CASE h.must_cancel \/ h.inner = "cancelled" -> run_event_cancelled(h)
                 [] ~h.must_cancel /\ h.inner = "raised" ->
                       [h EXCEPT !.hooks = Append(@, error_handler(h.kind)),
                                 !.hook_error = HookError, !.outcome = "raise",
                                 !.st = IF k.how = "raise" THEN "raised" ELSE "done",
                                 !.result = k.v]
                 [] ~h.must_cancel /\ h.inner = "done" ->
                       [h EXCEPT !.st = "done", !.outcome = "return",
                                 !.result = CASE h.inner_result.type = "ErrorResponse" -> h.inner_result
                                              [] h.inner_result.type = "list" ->
                                                     QueryResponse(h.inner_result.results)
                                              [] OTHER -> QueryResponseOfNone]]
    /\ delivered' = NoFrame
    /\ UNCHANGED <<current_request_id, requests, tasks, results, callers, inbound, wire,
                   owed, cancel_succeeded, ignore_cancellations, reader, pure_vars>>

----------------------------------------------------------------------------
(* Cancellation: JsonRPCClient.handle_notification / handle_cancellation   *)

\* Task.cancel() on the handler task h: False on a finished task; a task
\* waiting on another task passes the cancellation on to it
task_cancel(h) ==
    CASE h.st \in {"scheduled", "suspended"} -> [h EXCEPT !.must_cancel = TRUE]
      [] h.st = "awaitInner" /\ h.inner \in {"scheduled", "suspended"} ->
            [h EXCEPT !.inner_cancel = TRUE]
      [] h.st = "awaitInner" /\ h.inner \notin {"scheduled", "suspended"} ->
            [h EXCEPT !.must_cancel = TRUE]
      [] OTHER -> h

\* handle_cancellation(id) when the option read is `ignore`, recorded as
\* `line`: with the option set it returns at once; otherwise a task stored
\* under the id is popped and cancelled, and an unknown id is logged
cancellation(id, ignore, line) ==
    /\ listening
    /\ IF ignore
       THEN UNCHANGED <<tasks, handler, cancel_succeeded>>
       ELSE IF id \in DOMAIN tasks
       THEN LET r == tasks[id]
            IN  /\ tasks' = Pop(tasks, id)
                /\ handler' = [handler EXCEPT ![r] = task_cancel(handler[r])]
                /\ cancel_succeeded' =
                      IF task_cancel(handler[r]) # handler[r]
                      THEN cancel_succeeded \cup {r} ELSE cancel_succeeded
       ELSE UNCHANGED <<tasks, handler, cancel_succeeded>>
    /\ delivered' = line
    /\ UNCHANGED <<current_request_id, requests, results, callers, inbound, wire, owed,
                   ignore_cancellations, reader, pure_vars>>

\* (a cancellation that does not look at the option)
handle_cancellation_heeded(id) ==
    cancellation(id, FALSE, Line("cancel", id, "none", "none"))

\* (a cancellation that pops without looking: KeyError for an unknown id)
handle_cancellation_unchecked(id) ==
    cancellation(id, ignore_cancellations,
                 Line("cancel", id, "none", IF id \in DOMAIN tasks THEN "none" ELSE "KeyError"))

\* process_input on a $/cancelRequest notification
handle_cancellation(id) ==
    cancellation(id, ignore_cancellations, Line("cancel", id, "none", "none"))

\* the methods of the Notifications the host sends besides $/cancelRequest
NotificationMethods == {"unknown"}

\* (a Notification answered like a Request for an unknown method)
handle_notification_answered(method) ==
    /\ listening
    /\ method # "$/cancelRequest"
    /\ delivered' = Line("notification", 0, "MethodNotFound", "none")
    /\ wire' = Append(wire, to_message(MethodNotFound_to_response, 0, 0))
    /\ UNCHANGED <<current_request_id, requests, tasks, results, callers, inbound, handler,
                   owed, cancel_succeeded, ignore_cancellations, reader, pure_vars>>

\* process_input on a Notification (no "id") whose method is not
\* $/cancelRequest: handle_notification logs a MethodNotFound and returns
handle_notification(method) ==
    /\ listening
    /\ method # "$/cancelRequest"
    /\ delivered' = Line("notification", 0, "MethodNotFound", "none")
    /\ UNCHANGED <<current_request_id, requests, tasks, results, callers, inbound, handler,
                   wire, owed, cancel_succeeded, ignore_cancellations, reader, pure_vars>>

\* process_input on a line that is no JSON text: json.loads raises
\* JSONDecodeError, which ends the line's process_input task; nothing awaits
\* that task and nothing else is done for the line
process_input_malformed ==
    /\ listening
    /\ delivered' = Line("malformed", 0, "none", "JSONDecodeError")
    /\ UNCHANGED <<current_request_id, requests, tasks, results, callers, inbound, handler,
                   wire, owed, cancel_succeeded, ignore_cancellations, reader, pure_vars>>

\* start_listening on a line that is no UTF-8 text: line.decode("utf-8")
\* raises UnicodeDecodeError inside the loop of start_listening itself
start_listening_undecodable ==
    /\ listening
    /\ reader' = "stopped"
    /\ delivered' = Line("undecodable", 0, "none", "UnicodeDecodeError")
    /\ UNCHANGED <<current_request_id, requests, tasks, results, callers, inbound, handler,
                   wire, owed, cancel_succeeded, ignore_cancellations, pure_vars>>

----------------------------------------------------------------------------
(* The client on its event loop *)

\* the codes of the error Responses the host sends
HostErrorCodes == {server_error_start, server_error_end, method_not_found}

\* the frames the host sends about outbound calls, and the calls themselves
OutboundStep ==
    \/ \E c \in Callers : request(c)
    \/ \E rid \in Ids, payload \in Payloads : handle_result(rid, payload)
    \/ \E rid \in Ids, code \in HostErrorCodes : handle_error(rid, code)

\* the host numbers its Requests upwards: the ids it has not used yet
FreshHostIds == {id \in Ids : \A used \in HostIdsUsed : id > used}

\* the slugs a Request for the method carries: flogin.action.<slug>, or the
\* data of a context menu request, which may be empty
RequestSlugs(method) ==
    CASE method = "flogin.action" -> Slugs
      [] method = "context_menu" -> Slugs \cup {0}
      [] OTHER -> {0}

\* the host's Requests for the methods in `methods` and its cancellations,
\* and handle_request taking up again when the handler task has finished
HostStep(methods) ==
    \/ \E r \in Reqs, id \in FreshHostIds, method \in methods :
          \E slug \in RequestSlugs(method) :
            handle_request(r, id, method, slug)
    \/ \E id \in Ids : handle_cancellation(id)
    \/ \E r \in Reqs : finish_request(r)

\* a host that calls the plugin's registered event, unknown methods and
\* actions (no query has registered a Result), and sends Notifications
NextInbound ==
    \/ HostStep({"event", "unknown", "flogin.action"})
    \/ \E method \in NotificationMethods : handle_notification(method)
    \/ \E r \in Reqs : task_step(r)

\* a host that sends queries and clicks on Results
NextQuery ==
    \/ HostStep({"query", "flogin.action"})
    \/ \E r \in Reqs : task_step(r)
    \/ \E r \in Reqs : query_step(r)
    \/ \E r \in Reqs : inner_step(r)
    \/ \E r \in Reqs : outer_wake(r)

\* the plugin's calls of the host, between Requests of the host that are
\* answered at once (no method of theirs is registered) and carry any id the
\* host has not used
NextOutbound ==
    \/ OutboundStep
    \/ \E r \in Reqs, id \in Ids : handle_request(r, id, "unknown", 0)

\* the same, with callers that give up waiting
NextAbandon ==
    \/ NextOutbound
    \/ \E c \in Callers : request_abandoned(c)

\* a host that sends queries and asks for the context menus of Results
NextSearch ==
    \/ HostStep({"query", "context_menu"})
    \/ \E r \in Reqs : query_step(r)
    \/ \E r \in Reqs : context_menu_step(r)
    \/ \E r \in Reqs : inner_step(r)
    \/ \E r \in Reqs : outer_wake(r)

\* the same host, also sending lines that are no JSON text
NextLines ==
    \/ NextInbound
    \/ process_input_malformed
    \/ start_listening_undecodable

\* the plugin was made with ignore_cancellation_requests set
InitIgnoring ==
    /\ InitClientWith(TRUE)
    /\ ErrIdle
    /\ NormIdle
    /\ LibIdle

SpecInbound == Init /\ [][NextInbound]_vars
SpecLines == Init /\ [][NextLines]_vars
SpecIgnoring == InitIgnoring /\ [][NextInbound]_vars
SpecSearch == Init /\ [][NextSearch]_vars
SpecQuery == Init /\ [][NextQuery]_vars
SpecOutbound == Init /\ [][NextOutbound]_vars
SpecAbandon == Init /\ [][NextAbandon]_vars

----------------------------------------------------------------------------
(* get_exception_from_json on its own *)

\* the codes tried: the five fixed ones, 0, and every code from Margin below
\* the reserved range to Margin above it
ErrCodes ==
    {parser_error, invalid_request, method_not_found, invalid_params, internal_error, 0}
        \cup ((server_error_end - Margin)..(server_error_start + Margin))

\* payloads with and without a "data" key
ErrorPayloads ==
    {ErrorPayload(code, message, TRUE, data) :
        code \in ErrCodes, message \in {"msg", ""}, data \in {"d", NoData}}
    \cup {ErrorPayload(code, message, FALSE, NoData) : code \in ErrCodes, message \in {"msg", ""}}

InitErr ==
    /\ InitClient
    /\ err_in \in ErrorPayloads
    /\ err_out = NoExc
    /\ NormIdle
    /\ LibIdle

convert ==
    /\ err_out = NoExc
    /\ err_out' = get_exception_from_json(err_in)
    /\ UNCHANGED <<err_in, client_vars, norm_vars, lib_vars>>

SpecErr == InitErr /\ [][convert]_vars

----------------------------------------------------------------------------
(* Plugin._coro_or_gen_to_results on its own *)

\* Results that exist before the call: the slug of the first has been
\* accessed, that of the second has not; the third is in the registry only
Result1 == Result(1, "r1", 1)
Result2 == Result(2, "r2", 0)
Result3 == Result(3, "r3", 3)

NormItems == {ResultItem(Result1), ResultItem(Result2), DictItem("a"), StrItem("a"), IntItem(1)}
NormLists == UNION {[1..n -> NormItems] : n \in 0..MaxLen}

\* a coroutine returning None, an ErrorResponse, one item or a list of items,
\* and an async generator yielding items
NormInputs ==
    {Coroutine(PyList(items)) : items \in NormLists}
        \cup {AsyncGen(items) : items \in NormLists}
        \cup {Coroutine(PyItem(item)) : item \in NormItems}
        \cup {Coroutine(PyNone), Coroutine(ErrorResponse(internal_error)),
              Coroutine(on_error("on_error", HandlerError))}

\* the registry is empty, or holds Results of an earlier call
NormRegistries ==
    {EmptyDict, [s \in {1} |-> Result1], [s \in {1, 3} |-> IF s = 1 THEN Result1 ELSE Result3]}

\* identities and tokens above those of Result1..Result3 are new
NormFresh == Result3.obj + 1

InitNorm ==
    /\ InitClient
    /\ ErrIdle
    /\ norm_in \in NormInputs
    /\ norm_registry \in NormRegistries
    /\ norm_out = NoNorm
    /\ LibIdle

normalize ==
    /\ norm_out = NoNorm
    /\ norm_out' = coro_or_gen_to_results(norm_in, norm_registry, NormFresh)
    /\ UNCHANGED <<norm_in, norm_registry, client_vars, err_vars, lib_vars>>

SpecNorm == InitNorm /\ [][normalize]_vars

----------------------------------------------------------------------------
(* Result.slug and Result.to_dict on one Result *)

Tokens == 1..NumTokens

\* what to_dict() puts into the dict from the slug
SlugDict(method_slug, context_slug) ==
    [op |-> "to_dict", method |-> <<"flogin.action.", method_slug>>,
     contextData |-> <<context_slug>>]
SlugRead(op, s) == [op |-> op, method |-> <<>>, contextData |-> <<s>>]

InitSlug ==
    /\ InitClient
    /\ ErrIdle
    /\ NormIdle
    /\ LibIdle

\* an access of result.slug, as process_action's callers and __repr__ do
slug_access ==
    /\ Len(result_obj.read) < MaxOps
    /\ \E token \in Tokens :
          LET s == Result_slug(result_obj.slug, token)
          IN  result_obj' = [slug |-> s, read |-> Append(result_obj.read, SlugRead("slug", s))]
    /\ UNCHANGED slug_frame

\* _coro_or_gen_to_results: self._results[res.slug] = res
slug_register ==
    /\ Len(result_obj.read) < MaxOps
    /\ \E token \in Tokens :
          LET s == Result_slug(result_obj.slug, token)
          IN  result_obj' = [slug |-> s, read |-> Append(result_obj.read, SlugRead("register", s))]
    /\ UNCHANGED slug_frame

\* Result.to_dict: self.slug is read for jsonRPCAction.method and again for
\* contextData
Result_to_dict ==
    /\ Len(result_obj.read) < MaxOps
    /\ \E t1, t2 \in Tokens :
          LET s1 == Result_slug(result_obj.slug, t1)
              s2 == Result_slug(s1, t2)
          IN  result_obj' = [slug |-> s2, read |-> Append(result_obj.read, SlugDict(s1, s2))]
    /\ UNCHANGED slug_frame

SpecSlug == InitSlug /\ [][slug_access \/ slug_register \/ Result_to_dict]_vars

----------------------------------------------------------------------------
(* flogin/conditions.py and Query.condition_data in the loop of            *)
(* Plugin.process_search_handlers                                          *)

\* values of query.condition_data: the data a condition made (a re.Match,
\* say), AllCondition's dict of condition -> data, AnyCondition's tuple
\* (condition, data); items holds the entries [key, data]
CondValue(by) == [kind |-> "value", by |-> by, items |-> <<>>]
CondEntry(key, data) == [key |-> key, data |-> data]
CondDict(items) == [kind |-> "dict", by |-> 0, items |-> items]
CondTuple(condition, data) == [kind |-> "tuple", by |-> 0, items |-> <<CondEntry(condition, data)>>]

\* a condition: PlainTextCondition and RegexCondition with what they return on
\* this query, a callable of the plugin that stores data in the query and
\* returns `match`, AllCondition and AnyCondition over their conditions
Condition(cls, id, match, conditions) ==
    [cls |-> cls, id |-> id, match |-> match, conditions |-> conditions]

RECURSIVE condition_call(_, _)
RECURSIVE AllCondition_call(_, _, _, _)
RECURSIVE AnyCondition_call(_, _, _)

\* condition(query) with query.condition_data = data before the call: what
\* it returns and query.condition_data after it
condition_call(condition, data) ==
    CASE condition.cls = "PlainTextCondition" -> [ret |-> condition.match, data |-> data]
      [] condition.cls = "RegexCondition" ->
            [ret |-> condition.match,
             data |-> IF condition.match THEN CondValue(condition.id) ELSE data]
      [] condition.cls = "callable" -> [ret |-> condition.match, data |-> CondValue(condition.id)]
      [] condition.cls = "AllCondition" -> AllCondition_call(condition.conditions, 1, data, <<>>)
      [] condition.cls = "AnyCondition" -> AnyCondition_call(condition.conditions, 1, data)

\* AllCondition.__call__ from its i-th condition on: a condition that returns
\* False ends it; otherwise the query's data is kept under the condition and
\* the query's data set to None; at the end the dict becomes the query's data
AllCondition_call(conditions, i, data, condition_data) ==
    IF i > Len(conditions)
    THEN [ret |-> TRUE, data |-> CondDict(condition_data)]
    ELSE LET r == condition_call(conditions[i], data)
         IN  IF ~r.ret THEN [ret |-> FALSE, data |-> r.data]
             ELSE AllCondition_call(conditions, i + 1, CondNone,
                                    Append(condition_data, CondEntry(conditions[i].id, r.data)))

\* AnyCondition.__call__ from its i-th condition on: the first condition that
\* returns True ends it with (condition, query.condition_data)
AnyCondition_call(conditions, i, data) ==
    IF i > Len(conditions)
    THEN [ret |-> FALSE, data |-> data]
    ELSE LET r == condition_call(conditions[i], data)
         IN  IF r.ret THEN [ret |-> TRUE, data |-> CondTuple(conditions[i].id, r.data)]
             ELSE AnyCondition_call(conditions, i + 1, r.data)

\* the conditions tried: the three simple ones, matching or not, and an
\* AllCondition and an AnyCondition over simple ones; base numbers them
SimpleConditions(id) ==
    {Condition(cls, id, match, <<>>) :
        cls \in {"PlainTextCondition", "RegexCondition", "callable"}, match \in BOOLEAN}
MultiConditions(base) ==
    {Condition(cls, base, FALSE, conditions) :
        cls \in {"AllCondition", "AnyCondition"},
        conditions \in {f \in [1..NumSubConditions -> UNION {SimpleConditions(base + j) :
                                                              j \in 1..NumSubConditions}] :
                           \A j \in 1..NumSubConditions : f[j].id = base + j}}
HandlerConditions(h) ==
    SimpleConditions(h * (NumSubConditions + 1)) \cup MultiConditions(h * (NumSubConditions + 1))

InitCond ==
    /\ InitClient
    /\ ErrIdle
    /\ NormIdle
    /\ result_obj = NewResult
    /\ group_st = NoGroup /\ settings_st = NoSettings /\ cache_st = NoCache /\ MoreIdle
    /\ \E handlers \in {f \in [1..NumCondHandlers -> UNION {HandlerConditions(h) :
                                                             h \in 1..NumCondHandlers}] :
                          \A h \in 1..NumCondHandlers : f[h] \in HandlerConditions(h)} :
          cond_st = [NoConds EXCEPT !.handlers = handlers]

\* one turn of the loop of process_search_handlers on the Query: the next
\* handler's condition is called; when it holds the handler's callback is
\* called with the Query as it is then, and the loop ends
condition_step ==
    /\ cond_st.called = 0
    /\ cond_st.i < Len(cond_st.handlers)
    /\ LET r == condition_call(cond_st.handlers[cond_st.i + 1], cond_st.data)
       IN  cond_st' = [cond_st EXCEPT !.i = @ + 1, !.data = r.data,
                                      !.called = IF r.ret THEN cond_st.i + 1 ELSE 0,
                                      !.seen = IF r.ret THEN r.data ELSE CondNone]
    /\ UNCHANGED cond_frame

SpecCond == InitCond /\ [][condition_step]_vars

----------------------------------------------------------------------------
(* flogin/search_group.py: SearchGroup.condition and SearchGroup.callback  *)

\* texts are sequences of characters; sep is SearchGroup.sep, " " unless given
Chars == {"a", "b", " "}
sep == " "
Texts == UNION {[1..n -> Chars] : n \in 0..MaxText}

\* str.startswith, str.removeprefix and str.split(sep)
startswith(text, prefix) ==
    Len(prefix) <= Len(text) /\ SubSeq(text, 1, Len(prefix)) = prefix
removeprefix(text, prefix) ==
    IF startswith(text, prefix) THEN SubSeq(text, Len(prefix) + 1, Len(text)) ELSE text

RECURSIVE split(_)
split(text) ==
    IF \A i \in 1..Len(text) : text[i] # sep THEN <<text>>
    ELSE LET i == CHOOSE k \in 1..Len(text) :
                    text[k] = sep /\ \A j \in 1..(k - 1) : text[j] # sep
         IN  <<SubSeq(text, 1, i - 1)>> \o split(SubSeq(text, i + 1, Len(text)))

\* a subhandler: a callback, or a SearchGroup with its prefix and its
\* _subhandlers, keyed by text ("" for the root handler given by __call__)
Subhandler(name) == [kind |-> "callback", name |-> name, prefix |-> <<>>, subhandlers |-> <<>>]
SearchGroup(name, prefix, subhandlers) ==
    [kind |-> "group", name |-> name, prefix |-> prefix, subhandlers |-> subhandlers]

\* the handler that ran: which callback of which group, the query's text it
\* saw, and for _default_root_handler the keys it made Results of
Ran(name, text, keys) == [name |-> name, text |-> text, keys |-> keys]
NotRun == Ran("none", <<>>, {})

\* SearchGroup.condition
SearchGroup_condition(group, text) ==
    startswith(text \o <<sep>>, group.prefix \o <<sep>>)

\* SearchGroup.callback: parts of the text as it came, the text with prefix
\* and one separator removed, the subhandler under parts[1], else the one
\* under "", else _default_root_handler; a SearchGroup's callback in turn
RECURSIVE SearchGroup_callback(_, _)
SearchGroup_callback(group, text) ==
    LET parts == split(text)
        search == removeprefix(removeprefix(text, group.prefix), <<sep>>)
        found == Len(parts) >= 2 /\ parts[2] \in DOMAIN group.subhandlers
        key == IF found THEN parts[2] ELSE <<>>
    IN  IF key \in DOMAIN group.subhandlers
        THEN IF group.subhandlers[key].kind = "group"
             THEN SearchGroup_callback(group.subhandlers[key], search)
             ELSE Ran(group.subhandlers[key].name, search, {})
        ELSE Ran(group.name \o "._default_root_handler", search, DOMAIN group.subhandlers)

\* the groups tried: prefix with and without the separator in it, subhandlers
\* "a" and "b", a root handler, and a subgroup under "b" with its own
GroupPrefixes == {<<"a">>, <<"b">>, <<"a", " ", "b">>}
Keyed(present, key, subhandler) == IF present THEN {<<key, subhandler>>} ELSE {}
Table(entries) == [key \in {e[1] : e \in entries} |-> (CHOOSE e \in entries : e[1] = key)[2]]
Subgroups ==
    {SearchGroup("subgroup", <<"b">>,
                 Table(Keyed(a, <<"a">>, Subhandler("subgroup.a"))
                       \cup Keyed(root, <<>>, Subhandler("subgroup.root")))) :
        a \in BOOLEAN, root \in BOOLEAN}
Groups ==
    {SearchGroup("group", prefix,
                 Table(Keyed(a, <<"a">>, Subhandler("group.a"))
                       \cup Keyed(b.name # "none", <<"b">>, b)
                       \cup Keyed(root, <<>>, Subhandler("group.root")))) :
        prefix \in GroupPrefixes, a \in BOOLEAN, root \in BOOLEAN,
        b \in {Subhandler("none"), Subhandler("group.b")} \cup Subgroups}

InitGroup ==
    /\ InitClient
    /\ ErrIdle
    /\ NormIdle
    /\ result_obj = NewResult
    /\ cond_st = NoConds /\ settings_st = NoSettings /\ cache_st = NoCache /\ MoreIdle
    /\ \E group \in Groups, text \in Texts :
          group_st = [group |-> group, text |-> text, ran |-> NotRun]

\* the group's condition holds on the query and its callback is called
SearchGroup_dispatch ==
    /\ group_st.ran = NotRun
    /\ SearchGroup_condition(group_st.group, group_st.text)
    /\ group_st' = [group_st EXCEPT !.ran = SearchGroup_callback(group_st.group, group_st.text)]
    /\ UNCHANGED group_frame

SpecGroup == InitGroup /\ [][SearchGroup_dispatch]_vars

----------------------------------------------------------------------------
(* flogin/settings.py and the settingsChange of the responses              *)

\* the settings Flow sends with a query, or the Settings.json file holds
RawSettings == {NoChanges, [key \in SettingKeys |-> MaxSets + 1]}

\* Settings._get_updates without resetting the changes
Settings_get_updates_kept(changes) == [ret |-> changes, changes |-> changes]

\* Settings._get_updates: what it returns and the _changes it leaves
Settings_get_updates(changes) == [ret |-> changes, changes |-> NoChanges]

\* Plugin.settings read for the first time: the cached property makes the
\* Settings from the file; afterwards it is the object made
Plugin_settings(st, file) ==
    IF st.populated THEN st
    ELSE [st EXCEPT !.populated = TRUE, !.data = file, !.changes = NoChanges]

InitSettings ==
    /\ InitClient
    /\ ErrIdle
    /\ NormIdle
    /\ result_obj = NewResult
    /\ cond_st = NoConds /\ group_st = NoGroup /\ cache_st = NoCache /\ MoreIdle
    /\ \E settings_no_update \in BOOLEAN :
          settings_st = [NoSettings EXCEPT !.no_update = settings_no_update]

\* plugin.settings[key] = value, or plugin.settings.key = value: made keeps
\* every change with the number of _get_updates calls before it
Settings_setitem(key, file) ==
    /\ Len(settings_st.made) < MaxSets
    /\ LET st == Plugin_settings(settings_st, file)
           value == Len(st.made) + 1
       IN  settings_st' = [st EXCEPT !.data[key] = value, !.changes[key] = value,
                                     !.made = Append(@, [key |-> key, value |-> value,
                                                         flushes |-> st.flushes])]
    /\ UNCHANGED settings_frame

\* the default on_query event up to process_search_handlers: the first query
\* makes the Settings when none was made, later ones call Settings._update
on_query_settings(raw_settings) ==
    /\ settings_st.open < MaxOpenQueries
    /\ Len(settings_st.responses) + settings_st.open < MaxResponses
    /\ settings_st' =
          IF ~settings_st.populated
          THEN [settings_st EXCEPT !.populated = TRUE, !.data = raw_settings,
                                   !.changes = NoChanges, !.open = @ + 1]
          ELSE [settings_st EXCEPT !.data = IF settings_st.no_update THEN @ ELSE raw_settings,
                                   !.open = @ + 1]
    /\ UNCHANGED settings_frame

\* the end of process_search_handlers and process_context_menus: an
\* ErrorResponse is returned as it is, otherwise
\* QueryResponse(results, self.settings._get_updates())
build_response(method, type, file) ==
    /\ Len(settings_st.responses) < MaxResponses
    /\ method = "query" => settings_st.open > 0
    /\ method = "context_menu" => Len(settings_st.responses) + settings_st.open < MaxResponses
    /\ LET opened == [settings_st EXCEPT !.open = IF method = "query" THEN @ - 1 ELSE @]
           st == IF type = "ErrorResponse" THEN opened ELSE Plugin_settings(opened, file)
           updates == Settings_get_updates(st.changes)
       IN  settings_st' =
             IF type = "ErrorResponse"
             THEN [st EXCEPT !.responses = Append(@, [method |-> method, type |-> type,
                                                     settingsChange |-> NoChanges,
                                                     flushes |-> st.flushes])]
             ELSE [st EXCEPT !.changes = updates.changes,
                             !.flushes = @ + 1,
                             !.responses = Append(@, [method |-> method, type |-> type,
                                                     settingsChange |-> updates.ret,
                                                     flushes |-> st.flushes])]
    /\ UNCHANGED settings_frame

NextSettings ==
    \/ \E key \in SettingKeys, file \in RawSettings : Settings_setitem(key, file)
    \/ \E raw_settings \in RawSettings : on_query_settings(raw_settings)
    \/ \E method \in {"query", "context_menu"}, type \in {"QueryResponse", "ErrorResponse"},
          file \in RawSettings : build_response(method, type, file)

SpecSettings == InitSettings /\ [][NextSettings]_vars

----------------------------------------------------------------------------
(* flogin/caching.py                                                       *)

\* a call of a cached object: the clears of the object before it, whether it
\* ran the wrapped function, the value that run computes, and what the call
\* returned (NotCached while the wrapped function has not returned)
Call(obj, args, cleared, ran, value, ret) ==
    [obj |-> obj, args |-> args, cleared |-> cleared, ran |-> ran, value |-> value, ret |-> ret]

InitCache ==
    /\ InitClient
    /\ ErrIdle
    /\ NormIdle
    /\ result_obj = NewResult
    /\ cond_st = NoConds /\ group_st = NoGroup /\ settings_st = NoSettings /\ MoreIdle
    /\ cache_st = NoCache

\* a call whose wrapped coroutine or generator has not finished
Waiting(st, obj, args) ==
    \E c \in 1..Len(st.calls) :
        st.calls[c].obj = obj /\ st.calls[c].args = args /\ st.calls[c].ret = NotCached

\* CachedCallable.call: the cached value, or the wrapped function is run and
\* its value kept
CachedCallable_call(obj, args) ==
    /\ CachedObjects[obj].cls = "CachedCallable"
    /\ Len(cache_st.calls) < MaxCalls
    /\ LET st == cache_st
       IN  cache_st' =
             IF st.cache[obj][args] # NotCached
             THEN [st EXCEPT !.calls = Append(@, Call(obj, args, st.cleared[obj], FALSE,
                                                     NotCached, st.cache[obj][args]))]
             ELSE [st EXCEPT !.runs = @ + 1,
                             !.cache[obj][args] = st.runs + 1,
                             !.calls = Append(@, Call(obj, args, st.cleared[obj], TRUE,
                                                     st.runs + 1, st.runs + 1))]
    /\ UNCHANGED cache_frame

\* CachedCoro.call and CachedGen.call up to their await: the cached value, or
\* the wrapped coroutine (generator) is started
cached_call(cls, obj, args) ==
    /\ CachedObjects[obj].cls = cls
    /\ Len(cache_st.calls) < MaxCalls
    /\ LET st == cache_st
       IN  cache_st' =
             IF st.cache[obj][args] # NotCached
             THEN [st EXCEPT !.calls = Append(@, Call(obj, args, st.cleared[obj], FALSE,
                                                     NotCached, st.cache[obj][args]))]
             ELSE [st EXCEPT !.runs = @ + 1,
                             !.overlap = @ \/ Waiting(st, obj, args),
                             !.calls = Append(@, Call(obj, args, st.cleared[obj], TRUE,
                                                     st.runs + 1, NotCached))]
    /\ UNCHANGED cache_frame

CachedCoro_call(obj, args) == cached_call("CachedCoro", obj, args)
CachedGen_call(obj, args) == cached_call("CachedGen", obj, args)

\* the wrapped coroutine (generator) of call c is done: its value is put in
\* the cache and returned
cached_call_resumed(c) ==
    /\ c \in 1..Len(cache_st.calls)
    /\ cache_st.calls[c].ret = NotCached
    /\ LET call == cache_st.calls[c]
       IN  cache_st' = [cache_st EXCEPT !.cache[call.obj][call.args] = call.value,
                                       !.calls[c].ret = call.value]
    /\ UNCHANGED cache_frame

\* the cached objects clear_cache(key) clears: all of them when no key is
\* given, otherwise those kept under the key
clear_cache_items(key) ==
    IF key = "MISSING" THEN DOMAIN CachedObjects
    ELSE {obj \in DOMAIN CachedObjects : CachedObjects[obj].name = key}

\* clear_cache(key), with BaseCachedObject.clear_cache of each object
clear_cache(key) ==
    /\ cache_st.clears < MaxClears
    /\ LET st == cache_st
           items == clear_cache_items(key)
       IN  cache_st' =
             [st EXCEPT !.clears = @ + 1,
                        !.cache = [obj \in DOMAIN CachedObjects |->
                                      IF obj \in items THEN EmptyCache ELSE st.cache[obj]],
                        !.cleared = [obj \in DOMAIN CachedObjects |->
                                        IF obj \in items THEN st.cleared[obj] + 1
                                        ELSE st.cleared[obj]],
                        !.overlap = @ \/ \E obj \in items, args \in CacheArgs :
                                             Waiting(st, obj, args)]
    /\ UNCHANGED cache_frame

NextCache ==
    \/ \E obj \in DOMAIN CachedObjects, args \in CacheArgs : CachedCallable_call(obj, args)
    \/ \E obj \in DOMAIN CachedObjects, args \in CacheArgs : CachedCoro_call(obj, args)
    \/ \E obj \in DOMAIN CachedObjects, args \in CacheArgs : CachedGen_call(obj, args)
    \/ \E c \in 1..MaxCalls : cached_call_resumed(c)
    \/ \E key \in {"n", "None", "MISSING"} : clear_cache(key)

SpecCache == InitCache /\ [][NextCache]_vars

----------------------------------------------------------------------------
(* JsonRPCClient.start_listening on its stream, and the tasks it creates   *)

\* a task of the event loop: start_listening (n = 0), the process_input task
\* of line n, the handler task of the Request in line n
LoopTask(t, n) == [t |-> t, n |-> n]
Listener == LoopTask("listen", 0)

\* the process_input task of a line and the handler task of its Request
NoLineTask == [kind |-> "none", pc |-> "none", handler |-> "none"]

\* (a task put in front of the tasks that are ready)
create_task_first(ready, task) == <<task>> \o ready

\* asyncio.create_task, and the wake-up of a task whose future is done: the
\* task runs after the tasks that are ready already
create_task(ready, task) == Append(ready, task)

\* the stream: asyncio.StreamReader, whose readline returns without
\* suspending when a line or the end of the file is in its buffer, or a
\* reader that reads each line in a thread and suspends on every readline
ReaderKinds == {"StreamReader", "thread"}

InitLoop ==
    /\ InitClient
    /\ ErrIdle
    /\ NormIdle
    /\ result_obj = NewResult
    /\ cond_st = NoConds /\ group_st = NoGroup /\ settings_st = NoSettings
    /\ cache_st = NoCache
    /\ meta_st = NoMeta /\ prop_st = NoProp
    /\ \E reader_kind \in ReaderKinds :
          loop_st = [reader_kind |-> reader_kind, buffer |-> <<>>, fed |-> 0, eof |-> FALSE,
                     at_eof |-> FALSE, listen |-> "ready", ready |-> <<Listener>>,
                     task |-> [n \in 1..NumLines |-> NoLineTask],
                     read |-> <<>>, started |-> <<>>, written |-> <<>>]

\* the listener, suspended in readline, is woken when the stream gets data
\* or its end
feed_wakes(st) ==
    IF st.listen = "waiting"
    THEN [st EXCEPT !.listen = "ready", !.ready = create_task(@, Listener)]
    ELSE st

\* the host writes a line: a Request of a registered method, or a Notification
feed_data(kind) ==
    /\ loop_st.fed < NumLines
    /\ ~loop_st.eof
    /\ LET n == loop_st.fed + 1
       IN  loop_st' = feed_wakes([loop_st EXCEPT !.fed = n, !.buffer = Append(@, n),
                                                 !.task[n].kind = kind])
    /\ UNCHANGED loop_frame

\* the host closes the plugin's input
feed_eof ==
    /\ ~loop_st.eof
    /\ loop_st' = feed_wakes([loop_st EXCEPT !.eof = TRUE])
    /\ UNCHANGED loop_frame

\* the process_input tasks start_listening creates for the lines it reads
RECURSIVE tasks_created(_, _)
tasks_created(ready, lines) ==
    IF lines = <<>> THEN ready
    ELSE tasks_created(create_task(ready, LoopTask("input", Head(lines))), Tail(lines))

\* a step of start_listening, up to its next suspension. `async for line in
\* reader` ends at the end of the file, and `while 1` begins it again: with a
\* StreamReader readline then returns b"" without suspending, again and again,
\* and the step never ends; with a reader that suspends in readline the task
\* is ready again as soon as the empty line is read
start_listening_step(st, rest) ==
    LET took == IF st.reader_kind = "StreamReader" THEN st.buffer
                ELSE IF st.buffer = <<>> THEN <<>> ELSE <<Head(st.buffer)>>
        left == SubSeq(st.buffer, Len(took) + 1, Len(st.buffer))
        created == tasks_created(rest, took)
        ended == left = <<>> /\ st.eof
    IN  [st EXCEPT !.buffer = left,
                   !.read = @ \o took,
                   !.task = [n \in 1..NumLines |->
                                IF \E i \in 1..Len(took) : took[i] = n
                                THEN [st.task[n] EXCEPT !.pc = "created"] ELSE st.task[n]],
                   !.at_eof = ended,
                   !.listen = IF ended /\ st.reader_kind = "StreamReader" THEN "spinning"
                              ELSE IF left = <<>> /\ ~st.eof THEN "waiting"
                              ELSE "ready",
                   !.ready = IF ended /\ st.reader_kind = "StreamReader" THEN created
                             ELSE IF left = <<>> /\ ~st.eof THEN created
                             ELSE create_task(created, Listener)]

\* a step of the process_input task of line n: its first step classifies the
\* line and, for a Request, creates the handler task and awaits it; when the
\* handler is done it writes the Response
process_input_step(st, rest, n) ==
    IF st.task[n].pc = "created"
    THEN IF st.task[n].kind = "notification"
         THEN [st EXCEPT !.ready = rest, !.started = Append(@, n), !.task[n].pc = "done"]
         ELSE [st EXCEPT !.ready = create_task(rest, LoopTask("handler", n)),
                         !.started = Append(@, n),
                         !.task[n].pc = "awaiting", !.task[n].handler = "created"]
    ELSE [st EXCEPT !.ready = rest, !.written = Append(@, n), !.task[n].pc = "done"]

\* a step of the handler task of line n: it returns, which wakes
\* handle_request, or (in its first step) awaits something of its own
handler_step(st, rest, n, awaits) ==
    IF awaits /\ st.task[n].handler = "created"
    THEN [st EXCEPT !.ready = rest, !.task[n].handler = "suspended"]
    ELSE [st EXCEPT !.ready = create_task(rest, LoopTask("input", n)),
                    !.task[n].handler = "done"]

\* the event loop runs the first of the ready tasks up to its suspension;
\* while start_listening does not suspend, no task runs
run_once ==
    /\ loop_st.ready # <<>>
    /\ loop_st.listen # "spinning"
    /\ LET task == Head(loop_st.ready)
           rest == Tail(loop_st.ready)
       IN  CASE task.t = "listen" -> loop_st' = start_listening_step(loop_st, rest)
             [] task.t = "input" -> loop_st' = process_input_step(loop_st, rest, task.n)
             [] task.t = "handler" ->
                   \E awaits \in BOOLEAN : loop_st' = handler_step(loop_st, rest, task.n, awaits)
    /\ UNCHANGED loop_frame

\* what a suspended handler awaited is done
handler_woken(n) ==
    /\ loop_st.task[n].handler = "suspended"
    /\ loop_st.listen # "spinning"
    /\ loop_st' = [loop_st EXCEPT !.task[n].handler = "woken",
                                  !.ready = create_task(@, LoopTask("handler", n))]
    /\ UNCHANGED loop_frame

NextLoop ==
    \/ \E kind \in {"request", "notification"} : feed_data(kind)
    \/ feed_eof
    \/ run_once
    \/ \E n \in 1..NumLines : handler_woken(n)

SpecLoop == InitLoop /\ [][NextLoop]_vars

----------------------------------------------------------------------------
(* Plugin.metadata and the initialize request                              *)

\* the metadata the host sends in currentPluginMetadata, None for no metadata
MetadataValues == 1..NumMetadata
NoMetadata == 0

\* (the property without its check)
Plugin_metadata_unchecked(metadata) == [raised |-> "none", value |-> metadata]

\* Plugin.metadata: the stored metadata, PluginNotInitialized while it is None
Plugin_metadata(metadata) ==
    IF metadata # NoMetadata
    THEN [raised |-> "none", value |-> metadata]
    ELSE [raised |-> "PluginNotInitialized", value |-> NoMetadata]

\* Plugin.dispatch: the name looked up in the events for an event, "none"
\* when no callback has that name and no task is made
Plugin_dispatch(events, event) ==
    LET method == IF event = "initialize" THEN "_initialize_wrapper"
                  ELSE IF event = "initialization" THEN "on_initialization"
                  ELSE "none"
    IN IF method \in events THEN method ELSE "none"

\* a task of the event loop: an event run for request id with an argument,
\* or handle_request woken with the result of the task it awaited
EventTask(method, id, arg, result) ==
    [method |-> method, id |-> id, arg |-> arg, result |-> result]

\* get_default_events, and the event the user may have registered
DefaultEvents == {"on_error", "on_query", "on_context_menu", "_initialize_wrapper"}

InitMeta ==
    /\ InitClient
    /\ ErrIdle
    /\ NormIdle
    /\ result_obj = NewResult
    /\ cond_st = NoConds /\ group_st = NoGroup /\ settings_st = NoSettings
    /\ cache_st = NoCache
    /\ loop_st = NoLoop /\ prop_st = NoProp
    /\ \E user \in SUBSET {"on_initialization"} :
          meta_st = [events |-> DefaultEvents \cup user, metadata |-> NoMetadata,
                     ready |-> <<>>, received |-> 0, processed |-> 0,
                     dispatched |-> <<>>, responses |-> <<>>, log |-> <<>>]

\* handle_request of an initialize Request: the event is dispatched with the
\* parameter of the Request, and the handler awaits the task
handle_request_initialize(arg) ==
    /\ meta_st.received < MaxInits
    /\ LET id == meta_st.received + 1
           method == Plugin_dispatch(meta_st.events, "initialize")
       IN meta_st' = [meta_st EXCEPT !.received = id,
                                     !.ready = Append(@, EventTask(method, id, arg, PyNone))]
    /\ UNCHANGED meta_frame

\* plugin.metadata read by the code of the plugin
metadata_accessed(st) ==
    [st EXCEPT !.log = Append(@, Plugin_metadata(st.metadata))]

\* Plugin._initialize_wrapper in its task: it has no await, so it runs in one
\* step; the task of the user's event is made before the wrapper returns and
\* its end wakes handle_request
initialize_wrapper(st, rest, task) ==
    LET method == Plugin_dispatch(st.events, "initialization")
        events == IF method = "none" THEN <<>> ELSE <<EventTask(method, 0, NoMetadata, PyNone)>>
    IN [st EXCEPT !.metadata = task.arg,
                  !.processed = @ + 1,
                  !.dispatched = Append(@, "initialization"),
                  !.ready = rest \o events
                                 \o <<EventTask("handle_request", task.id, task.arg,
                                                ExecuteResponse(FALSE))>>]

\* handle_request after its task: the response is written under the id
handle_request_resumed(st, rest, task) ==
    [st EXCEPT !.ready = rest,
               !.responses = Append(@, [id |-> task.id, type |-> task.result.type,
                                        hide |-> task.result.hide])]

\* the event loop runs the first task that is ready; the user's event reads
\* plugin.metadata
meta_run_once ==
    /\ meta_st.ready # <<>>
    /\ LET task == Head(meta_st.ready)
           rest == Tail(meta_st.ready)
       IN meta_st' =
            CASE task.method = "_initialize_wrapper" -> initialize_wrapper(meta_st, rest, task)
              [] task.method = "handle_request" -> handle_request_resumed(meta_st, rest, task)
              [] OTHER -> metadata_accessed([meta_st EXCEPT !.ready = rest])
    /\ UNCHANGED meta_frame

\* plugin.metadata read outside the events of the initialization
Plugin_metadata_get ==
    /\ Len(meta_st.log) < MaxAccesses
    /\ meta_st' = metadata_accessed(meta_st)
    /\ UNCHANGED meta_frame

NextMeta ==
    \/ \E arg \in MetadataValues : handle_request_initialize(arg)
    \/ meta_run_once
    \/ Plugin_metadata_get

SpecMeta == InitMeta /\ [][NextMeta]_vars

----------------------------------------------------------------------------
(* caching.cached_property: one CachedProperty in a class with instances   *)

Instances == 1..NumInstances

\* what the wrapped function returns for an instance in its run-th run, and
\* a CachedProperty that has no attribute value
Computed(instance, run) == [instance |-> instance, run |-> run]
NoAttribute == Computed(0, 0)

InitProp ==
    /\ InitClient
    /\ ErrIdle
    /\ NormIdle
    /\ result_obj = NewResult
    /\ cond_st = NoConds /\ group_st = NoGroup /\ settings_st = NoSettings
    /\ cache_st = NoCache
    /\ loop_st = NoLoop /\ meta_st = NoMeta
    /\ prop_st = [value |-> NoAttribute, runs |-> 0, clears |-> 0, got |-> <<>>]

\* CachedProperty.__get__ for an instance: self.value of the descriptor, set
\* from the wrapped function of the instance when the attribute is missing
CachedProperty_get(instance) ==
    /\ Len(prop_st.got) < MaxGets
    /\ LET value == IF prop_st.value # NoAttribute THEN prop_st.value
                    ELSE Computed(instance, prop_st.runs + 1)
       IN prop_st' = [prop_st EXCEPT !.value = value,
                                     !.runs = IF prop_st.value # NoAttribute THEN @ ELSE @ + 1,
                                     !.got = Append(@, [instance |-> instance, value |-> value])]
    /\ UNCHANGED prop_frame

\* clear_cache reaching CachedProperty.clear_cache: del self.value
CachedProperty_clear_cache ==
    /\ prop_st.clears < MaxClears
    /\ prop_st' = [prop_st EXCEPT !.value = NoAttribute, !.clears = @ + 1]
    /\ UNCHANGED prop_frame

NextProp ==
    \/ \E instance \in Instances : CachedProperty_get(instance)
    \/ CachedProperty_clear_cache

SpecProp == InitProp /\ [][NextProp]_vars

----------------------------------------------------------------------------
(* Properties *)

\* the frames written in reply to inbound request r, in order
Responses(r) == SelectSeq(wire, LAMBDA f : f.req = r)

\* process_input has ended for inbound request r
Finished(r) == inbound[r].pc \in {"done", "failed", "cancelled"}

InReservedRange(code) == server_error_end <= code /\ code <= server_error_start

\* C1: a caller that was suspended in request() when a success Response
\* carrying its id was delivered has been resolved, and every resolved caller
\* holds the Response whose id is the id allocated to its own request.
C1_OwnResponse ==
    \A c \in Callers :
        /\ callers[c].st = "resolved" => callers[c].res.id = callers[c].rid
        /\ c \in owed => callers[c].st = "resolved"

\* C2: the ids of the Request frames written are strictly increasing in the
\* order written, and no two callers are suspended on the same id.
C2_IdsIncreasingOnePerId ==
    /\ \A i, j \in 1..Len(wire) :
          i < j /\ wire[i].kind = "request" /\ wire[j].kind = "request"
              => wire[i].id < wire[j].id
    /\ \A c, d \in Callers :
          c # d /\ callers[c].st = "waiting" /\ callers[d].st = "waiting"
              => callers[c].rid # callers[d].rid

\* C3: once process_input has ended for an inbound Request whose task no
\* cancellation cancelled, exactly one Response frame, carrying the
\* Request's id, has been written for it; and never two for any Request.
C3_ExactlyOneResponse ==
    \A r \in Reqs :
        /\ Len(Responses(r)) <= 1
        /\ Finished(r) /\ r \notin cancel_succeeded
              => /\ Len(Responses(r)) = 1
                 /\ Responses(r)[1].id = inbound[r].id
                 /\ Responses(r)[1].kind \in {"result", "error"}

\* C4: after a cancellation notification has cancelled the registered task
\* of an inbound Request (the task had not started, or was suspended at an
\* await), no step writes a Response for that Request.
C4_NoResponseAfterCancel ==
    [][\A r \in Reqs : r \in cancel_succeeded => Responses(r)' = Responses(r)]_vars

\* the method of inbound request r named no registered event, and no
\* flogin.action.<slug> whose slug was in the registry when it was read
MethodUnknown(r) ==
    /\ inbound[r].pc # "unread"
    /\ inbound[r].method \notin RegisteredEvents
    /\ ~(inbound[r].method = "flogin.action" /\ inbound[r].in_registry)

\* C5: an inbound Request whose method is unknown has exactly one frame
\* written for it, the ErrorResponse with its id and code -32601; no callback
\* was invoked for it and no task is registered for it.
C5_MethodNotFound ==
    \A r \in Reqs :
        MethodUnknown(r) =>
            /\ Responses(r) = <<to_message(ErrorResponse(method_not_found), inbound[r].id, r)>>
            /\ handler[r].st = "none"
            /\ handler[r].invoked = 0
            /\ \A id \in DOMAIN tasks : tasks[id] # r

C5_Witness ==
    \E r \in Reqs :
        /\ MethodUnknown(r)
        /\ inbound[r].method = "unknown"
        /\ Len(Responses(r)) = 1

ResponseTypes == {"ExecuteResponse", "ErrorResponse", "QueryResponse"}

\* C6: when the handler task of an inbound Request ended with a value that is
\* no Response object, the frame written for the Request is the
\* ErrorResponse with code -32603; no frame on the wire carries a value that
\* is no Response.
C6_InvalidResponseObject ==
    /\ \A r \in Reqs :
          Finished(r) /\ handler[r].st = "done" /\ handler[r].result.type \notin ResponseTypes
              => Responses(r) = <<to_message(ErrorResponse(internal_error), inbound[r].id, r)>>
    /\ \A i \in 1..Len(wire) : wire[i].req # 0 => wire[i].type \in ResponseTypes

C6_Witness ==
    \E r \in Reqs :
        /\ inbound[r].pc = "done"
        /\ handler[r].outcome = "return"
        /\ handler[r].result = PyNone
        /\ Len(Responses(r)) = 1

\* the hide flag the claim gives for a callback's return value
ExpectedHide(v) == IF v.type = "None" THEN TRUE ELSE v.hide

\* C7: for an inbound flogin.action.<slug> whose slug was in the registry,
\* the Result's callback is invoked once (never twice, and once as soon as
\* the task has run), and when the callback returned True, False, None or an
\* ExecuteResponse, the one frame written is the success Response with the
\* Request's id and hide as the claim gives it.
C7_ActionClick ==
    \A r \in Reqs :
        inbound[r].method = "flogin.action" /\ inbound[r].in_registry /\ inbound[r].pc # "unread" =>
            /\ handler[r].kind = "action"
            /\ handler[r].invoked <= 1
            /\ handler[r].st \in {"suspended", "done", "raised"} => handler[r].invoked = 1
            /\ Finished(r) /\ handler[r].outcome = "return"
                  /\ handler[r].returned.type \in {"bool", "None", "ExecuteResponse"}
                  => /\ inbound[r].pc = "done"
                     /\ Len(Responses(r)) = 1
                     /\ Responses(r)[1].id = inbound[r].id
                     /\ Responses(r)[1].kind = "result"
                     /\ Responses(r)[1].type = "ExecuteResponse"
                     /\ Responses(r)[1].hide = ExpectedHide(handler[r].returned)

C7_Witness ==
    \E r \in Reqs :
        /\ inbound[r].method = "flogin.action" /\ inbound[r].in_registry
        /\ inbound[r].pc = "done"
        /\ handler[r].outcome = "return"
        /\ handler[r].returned = PyNone
        /\ Responses(r)[1].hide

\* C8: a step that handles a success Response for an id that a caller has
\* already been resolved with leaves the pending-call table and that
\* caller's value as they were.
C8_SecondDeliveryDropped ==
    [][\A c \in Callers :
          callers[c].st = "resolved" /\ delivered'.kind = "result"
              /\ delivered'.id = callers[c].rid
              => requests' = requests /\ callers'[c] = callers[c]]_vars

\* C9: a caller rejected by an error Response holds an exception built from
\* the code; when the code lies in -32099..-32000 the exception is a FlowError
\* (the exception's code is the code received).
C9_ReservedRangeIsFlowError ==
    \A c \in Callers :
        callers[c].st = "rejected" /\ InReservedRange(callers[c].exc.code)
            => callers[c].exc.cls = "FlowError"

\* C10: the five fixed codes give their five classes, a code that is none of
\* them and outside -32099..-32000 gives a plain JsonRPCException with that
\* code, and message and data (None when absent) are carried over always.
C10_Classification ==
    err_out # NoExc =>
        /\ err_in.code = parser_error => err_out.cls = "ParserError"
        /\ err_in.code = invalid_request => err_out.cls = "InvalidRequest"
        /\ err_in.code = method_not_found => err_out.cls = "MethodNotFound"
        /\ err_in.code = invalid_params => err_out.cls = "InvalidParams"
        /\ err_in.code = internal_error => err_out.cls = "InternalError"
        /\ err_in.code \notin {parser_error, invalid_request, method_not_found,
                               invalid_params, internal_error}
              /\ ~InReservedRange(err_in.code)
              => err_out.cls = "JsonRPCException"
        /\ ~InReservedRange(err_in.code) => err_out.code = err_in.code
        /\ err_out.message = err_in.message
        /\ err_out.data = (IF err_in.hasdata THEN err_in.data ELSE NoData)

C10_Witness ==
    /\ err_out.cls = "JsonRPCException"
    /\ err_in.code = 0
    /\ err_in.hasdata /\ err_out.data = "d"

\* the on_query task of inbound request r has run its first step
Began(r) ==
    handler[r].kind = "query" /\ handler[r].st \notin {"none", "scheduled", "cancelled"}

\* C11: for every query the conditions are evaluated in registration order,
\* none after the first that held; the one callback called is that of the
\* handler whose condition held, no other callback runs, and the Results in
\* the response are those of that callback.
C11_FirstMatchOnly ==
    \A r \in Reqs :
        handler[r].kind = "query" =>
            LET h == handler[r]
                ev == h.evaluated
            IN  /\ \A i \in 1..Len(ev) : ev[i].h = i
                /\ \A i \in 1..(Len(ev) - 1) : ev[i].c = "false"
                /\ h.called = IF ev # <<>> /\ ev[Len(ev)].c = "true"
                              THEN <<ev[Len(ev)].h>> ELSE <<>>
                /\ h.invoked <= Len(h.called)
                /\ \A f \in {Responses(r)[j] : j \in 1..Len(Responses(r))} :
                      f.type = "QueryResponse" =>
                          /\ h.called = <<>> => f.results = <<>>
                          /\ \A j \in 1..Len(f.results) :
                                f.results[j].title = ToString(h.called[1])

C11_Witness ==
    \E r \in Reqs :
        /\ handler[r].evaluated = <<[h |-> 1, c |-> "false"], [h |-> 2, c |-> "true"]>>
        /\ handler[r].called = <<2>>
        /\ inbound[r].pc = "done"
        /\ Len(Responses(r)) = 1
        /\ Len(Responses(r)[1].results) = 1
        /\ Responses(r)[1].results[1].title = "2"

\* C12: a query on which every registered handler's condition was false (or
\* with no handler registered) runs no callback and no error hook, and the
\* response written for it is the success QueryResponse with no Results.
C12_NoMatchEmptySuccess ==
    \A r \in Reqs :
        Began(r) /\ (\A i \in 1..Len(handler[r].evaluated) : handler[r].evaluated[i].c = "false") =>
            /\ handler[r].invoked = 0
            /\ handler[r].called = <<>>
            /\ handler[r].hooks = <<>>
            /\ handler[r].st = "done"
            /\ handler[r].result = QueryResponse(<<>>)
            /\ Finished(r) =>
                  Responses(r) = <<to_message(QueryResponse(<<>>), inbound[r].id, r)>>

C12_Witness ==
    \E r, q \in Reqs :
        /\ Began(r) /\ Len(handler[r].evaluated) = NumHandlers
        /\ \A i \in 1..NumHandlers : handler[r].evaluated[i].c = "false"
        /\ inbound[r].pc = "done" /\ Responses(r)[1].kind = "result"
        /\ Began(q) /\ handler[q].evaluated = <<>> /\ inbound[q].pc = "done"

\* the items of the value given to the normalization, in source order
NormSource ==
    LET raw == norm_in.v
    IN  IF raw.type \in {"list", "item"} THEN raw.results ELSE <<>>

C14_ErrorResponsePassthrough ==
    [][\A r \in Reqs :
          /\ handler[r].inner # "done" /\ handler'[r].inner = "done"
                /\ handler'[r].inner_raw.type = "ErrorResponse"
                => handler'[r].inner_result = handler'[r].inner_raw /\ results' = results
          /\ inbound[r].pc = "awaiting" /\ inbound'[r].pc # "awaiting"
                /\ handler[r].inner = "done" /\ handler[r].inner_raw.type = "ErrorResponse"
                /\ handler[r].outcome = "return"
                => Responses(r)' = <<to_message(handler[r].inner_raw, inbound[r].id, r)>>]_vars

C14_Witness ==
    \E r \in Reqs :
        /\ handler[r].kind = "context_menu"
        /\ handler[r].inner_outcome = "return"
        /\ handler[r].inner_raw.type = "ErrorResponse"
        /\ inbound[r].pc = "done"
        /\ Responses(r)[1].kind = "error"

\* C15: after the normalization has returned a list, every Result of the
\* list is the Result registered under its slug, and two Results of the list
\* that are not the same object have different slugs.
C15_ReturnedResultsRegistered ==
    norm_out # NoNorm /\ norm_out.out.type = "list" =>
        LET out == norm_out.out.results
        IN  /\ \A i \in 1..Len(out) :
                  /\ out[i].slug # 0
                  /\ out[i].slug \in DOMAIN norm_out.registry
                  /\ norm_out.registry[out[i].slug] = out[i]
            /\ \A i, j \in 1..Len(out) :
                  out[i].obj # out[j].obj => out[i].slug # out[j].slug

C15_Witness ==
    /\ norm_in = Coroutine(PyList(<<ResultItem(Result2), StrItem("a")>>))
    /\ norm_registry # EmptyDict
    /\ norm_out # NoNorm
    /\ Len(norm_out.out.results) = 2
    /\ norm_out.out.results[1].slug \in DOMAIN norm_out.registry
    /\ norm_out.out.results[2].slug \in DOMAIN norm_out.registry

\* the slugs of the Results made for inbound request r
SlugsMadeFor(r) ==
    {handler[r].inner_result.results[i].slug : i \in 1..Len(handler[r].inner_result.results)}

\* C16: once the on_query task of a query has run, the registry holds no
\* Result that was made for a query read before it.
C16_RegistrySuperseded ==
    \A q, p \in Reqs :
        Began(q) /\ p < q /\ handler[p].kind = "query" =>
            DOMAIN results \cap SlugsMadeFor(p) = {}

\* the hooks that ran for inbound request r, if one ran for every exception
\* of its handlers and none otherwise
HooksDue(r) ==
    LET h == handler[r]
    IN  (IF h.inner_outcome = "raise" THEN <<"SearchHandler.on_error">> ELSE <<>>)
            \o (IF h.outcome = "raise"
                THEN <<IF h.kind = "action" THEN "Result.on_error" ELSE "on_error">>
                ELSE <<>>)

C18_CancellationAbsorbed ==
    \A r \in Reqs :
        /\ handler[r].outcome = "cancelled" =>
              /\ handler[r].st = "done"
              /\ handler[r].result = PyNone
              /\ "on_error" \notin {handler[r].hooks[i] : i \in 1..Len(handler[r].hooks)}
              /\ "Result.on_error" \notin {handler[r].hooks[i] : i \in 1..Len(handler[r].hooks)}
        /\ handler[r].inner_outcome = "cancelled" /\ handler[r].inner = "done" =>
              /\ handler[r].inner_result = PyNone
              /\ handler[r].hooks = <<>>

C18_Witness ==
    \E r \in Reqs :
        /\ handler[r].kind = "action"
        /\ handler[r].outcome = "cancelled"
        /\ handler[r].invoked = 1
        /\ handler[r].st = "done"

\* C19: the next line can always be taken up, whatever the handlers of the
\* earlier Requests are doing, and a handler that has finished can have its
\* Response written whatever the handlers of the other Requests are doing.
C19_ReadLoopNeverWaits ==
    \A r \in Reqs :
        /\ inbound[r].pc = "unread" /\ (\A x \in Reqs : x < r => inbound[x].pc # "unread")
              /\ FreshHostIds # {}
              => ENABLED (\E id \in FreshHostIds : handle_request(r, id, "event", 0))
        /\ inbound[r].pc = "awaiting" /\ handler[r].st = "done"
              => ENABLED finish_request(r)

C19_Witness ==
    \E a, b \in Reqs :
        /\ a < b
        /\ inbound[a].pc = "awaiting" /\ handler[a].st = "suspended"
        /\ inbound[b].pc = "done" /\ handler[b].invoked = 1
        /\ Len(Responses(b)) = 1 /\ Responses(a) = <<>>

C21_ParserErrorReported ==
    delivered.kind \in {"malformed", "undecodable"} =>
        /\ \/ "ParserError" \in {delivered.logged, delivered.raised}
           \/ \E i \in 1..Len(wire) : wire[i].code = parser_error
        /\ listening

\* C22: a step that handles a cancellation for an id that is not in the task
\* table changes neither table, no handler task and no frame written, and
\* after it the next Request line can still be taken up.
C22_CancelUnknownId ==
    [][delivered'.kind = "cancel" /\ delivered'.id \notin DOMAIN tasks /\ ~ignore_cancellations =>
          /\ tasks' = tasks /\ requests' = requests
          /\ handler' = handler /\ inbound' = inbound
          /\ wire' = wire /\ cancel_succeeded' = cancel_succeeded
          /\ delivered'.raised = "none"
          /\ listening'
          /\ \A r \in Reqs :
                inbound[r].pc = "unread" /\ (\A x \in Reqs : x < r => inbound[x].pc # "unread")
                    /\ FreshHostIds # {}
                    => (ENABLED (\E id \in FreshHostIds : handle_request(r, id, "event", 0)))']_vars

C22_Witness ==
    /\ delivered.kind = "cancel"
    /\ delivered.id \notin DOMAIN tasks
    /\ \A r \in Reqs : inbound[r].id # delivered.id
    /\ \E r \in Reqs : inbound[r].pc = "awaiting" /\ handler[r].st = "suspended"
    /\ \E r \in Reqs : inbound[r].pc = "unread"

\* C23: with ignore_cancellation_requests set, a step that handles a
\* cancellation is a no-op: no task is ever cancelled or taken from the table,
\* every handler task can take its next step, and every Request whose handler
\* returned a Response has that Response written.
C23_IgnoredCancellation ==
    /\ cancel_succeeded = {}
    /\ \A r \in Reqs :
          /\ ~handler[r].must_cancel /\ ~handler[r].inner_cancel
          /\ handler[r].st # "cancelled" /\ handler[r].outcome # "cancelled"
          /\ inbound[r].pc # "cancelled"
          /\ handler[r].registered => inbound[r].id \in DOMAIN tasks /\ tasks[inbound[r].id] = r
          /\ inbound[r].pc = "done" /\ handler[r].st = "done" /\ IsBaseResponse(handler[r].result)
                => Responses(r) = <<to_message(handler[r].result, inbound[r].id, r)>>
          /\ inbound[r].pc = "awaiting"
                /\ (handler[r].st = "suspended" \/ (handler[r].st = "scheduled" /\ started_in_order(r)))
                => ENABLED task_step(r)
          /\ inbound[r].pc = "awaiting" /\ handler[r].st = "done" => ENABLED finish_request(r)

C23_Witness ==
    /\ ignore_cancellations
    /\ delivered.kind = "cancel"
    /\ delivered.id \in DOMAIN tasks
    /\ LET r == tasks[delivered.id]
       IN  /\ inbound[r].pc = "awaiting"
           /\ handler[r].st = "suspended"
           /\ handler[r].invoked = 1

\* C24: a step that handles a success or error Response whose id is not in
\* the pending-call table raises nothing, leaves the table and every caller
\* as they were, writes nothing, and the reader goes on.
C24_UnknownResponseDropped ==
    [][delivered'.kind \in {"result", "error"} /\ delivered'.id \notin DOMAIN requests =>
          /\ requests' = requests /\ callers' = callers
          /\ tasks' = tasks /\ wire' = wire
          /\ delivered'.raised = "none"
          /\ listening'
          /\ (ENABLED OutboundStep)']_vars

C24_Witness ==
    /\ delivered.kind = "error"
    /\ delivered.id \notin DOMAIN requests
    /\ \A c \in Callers : callers[c].rid # delivered.id
    /\ \E c \in Callers : callers[c].st = "waiting"

\* C30: the task table holds only ids of Requests whose processing has not
\* ended: once the handler has finished and handle_request has answered (or
\* ended without answering), the Request's id is no longer in the table.
C30_TableHoldsUnfinished ==
    \A id \in DOMAIN tasks : ~Finished(tasks[id])

\* C25: everything read from one Result carries one slug: every access of
\* slug and every registration gives the value of the first, and every
\* to_dict() has the method "flogin.action." followed by that slug and the
\* contextData [slug].
C25_SlugGeneratedOnce ==
    \A i \in 1..Len(result_obj.read) :
        LET first == result_obj.read[1].contextData[1]
            x == result_obj.read[i]
        IN  /\ x.contextData = <<first>>
            /\ x.op = "to_dict" => x.method = <<"flogin.action.", first>>
            /\ result_obj.slug = first

C25_Witness ==
    /\ Len(result_obj.read) = MaxOps
    /\ result_obj.read[1].op = "register"
    /\ result_obj.read[2].op = "to_dict"
    /\ result_obj.read[3].op = "slug"
    /\ result_obj.read[4].op = "to_dict"

\* whether a condition holds on the query, and the data it makes of its own
\* when it does
RECURSIVE Holds(_)
Holds(condition) ==
    CASE condition.cls = "AllCondition" ->
            \A j \in 1..Len(condition.conditions) : Holds(condition.conditions[j])
      [] condition.cls = "AnyCondition" ->
            \E j \in 1..Len(condition.conditions) : Holds(condition.conditions[j])
      [] OTHER -> condition.match

RECURSIVE OwnData(_)
OwnData(condition) ==
    CASE condition.cls = "PlainTextCondition" -> CondNone
      [] condition.cls \in {"RegexCondition", "callable"} -> CondValue(condition.id)
      [] condition.cls = "AllCondition" ->
            CondDict([j \in 1..Len(condition.conditions) |->
                         CondEntry(condition.conditions[j].id, OwnData(condition.conditions[j]))])
      [] condition.cls = "AnyCondition" ->
            LET first == CHOOSE j \in 1..Len(condition.conditions) :
                            /\ Holds(condition.conditions[j])
                            /\ \A k \in 1..(j - 1) : ~Holds(condition.conditions[k])
            IN  CondTuple(condition.conditions[first].id, OwnData(condition.conditions[first]))

\* C26: the condition data the callback of the matching handler is called
\* with is the data of that handler's own condition: for AllCondition each
\* condition's own data under the condition, for AnyCondition the matching
\* condition with its own data, otherwise the condition's data or None.
C26_OwnConditionData ==
    cond_st.called # 0 =>
        cond_st.seen = OwnData(cond_st.handlers[cond_st.called])

\* the dispatch the documentation describes: the prefix and one separator
\* stripped, the remainder split, the subhandler under its first token,
\* otherwise the root handler
RECURSIVE Dispatch(_, _)
Dispatch(group, text) ==
    LET remainder == removeprefix(removeprefix(text, group.prefix), <<sep>>)
        tokens == IF remainder = <<>> THEN <<>> ELSE split(remainder)
        key == IF tokens # <<>> /\ tokens[1] \in DOMAIN group.subhandlers THEN tokens[1] ELSE <<>>
    IN  IF key \in DOMAIN group.subhandlers
        THEN IF group.subhandlers[key].kind = "group"
             THEN Dispatch(group.subhandlers[key], remainder)
             ELSE Ran(group.subhandlers[key].name, remainder, {})
        ELSE Ran(group.name \o "._default_root_handler", remainder, DOMAIN group.subhandlers)

\* C27: a matching SearchGroup dispatches to the subhandler keyed by the first
\* token of the text that remains after its prefix, into groups in turn, and
\* to the root handler when there is no such token or key, for every prefix,
\* one with the separator in it too.
C27_DispatchByFirstRemainingToken ==
    group_st.ran # NotRun => group_st.ran = Dispatch(group_st.group, group_st.text)

\* the same for the prefixes that hold no separator
PlainPrefixDispatch ==
    (group_st.ran # NotRun /\ \A i \in 1..Len(group_st.group.prefix) : group_st.group.prefix[i] # sep)
        => group_st.ran = Dispatch(group_st.group, group_st.text)

\* the pairs set between the e-th call of _get_updates and the next one: for
\* each key the value it was last set to in that time
SetSince(made, e) ==
    [key \in SettingKeys |->
        LET at == {i \in 1..Len(made) : made[i].key = key /\ made[i].flushes = e}
        IN  IF at = {} THEN NoValue
            ELSE made[CHOOSE i \in at : \A j \in at : j <= i].value]

\* a change that was not replaced by a later one of its key before the flush
Stands(made, i) ==
    \A j \in (i + 1)..Len(made) :
        ~(made[j].key = made[i].key /\ made[j].flushes = made[i].flushes)

\* C28: the pending changes are the pairs set since the last _get_updates;
\* each query or context-menu response holds the pairs set since the call
\* before its own, none when there was no change; and every change is in the
\* settingsChange of one response at most, and otherwise still pending.
C28_SettingsDelta ==
    LET st == settings_st
    IN  /\ st.changes = SetSince(st.made, st.flushes)
        /\ \A r \in 1..Len(st.responses) :
              st.responses[r].type = "QueryResponse" =>
                  st.responses[r].settingsChange = SetSince(st.made, st.responses[r].flushes)
        /\ \A i \in 1..Len(st.made) :
              Stands(st.made, i) =>
                  Cardinality({r \in 1..Len(st.responses) :
                      st.responses[r].settingsChange[st.made[i].key] = st.made[i].value})
                  + (IF st.changes[st.made[i].key] = st.made[i].value THEN 1 ELSE 0) = 1

\* a change flushed into one response, after an ErrorResponse that left it
\* pending, and a later response with nothing in it
C28_Witness ==
    LET st == settings_st
    IN  /\ Len(st.responses) = MaxResponses
        /\ st.responses[1].type = "ErrorResponse"
        /\ st.responses[2].type = "QueryResponse"
        /\ st.responses[2].settingsChange # NoChanges
        /\ \E i \in 1..Len(st.made) : st.made[i].flushes = 0 /\ ~Stands(st.made, i)
        /\ st.responses[3].type = "QueryResponse"
        /\ st.responses[3].settingsChange = NoChanges

\* calls of one cached object with equal arguments and no clear of that
\* object between them
SameCached(a, b) == a.obj = b.obj /\ a.args = b.args /\ a.cleared = b.cleared

\* the first of such calls runs the wrapped function, the later ones do not
\* and return what the first one returned; calls with other arguments return
\* another value
CachedOnce(calls) ==
    /\ \A j \in 1..Len(calls) :
          calls[j].ran <=> ~\E i \in 1..(j - 1) : SameCached(calls[i], calls[j])
    /\ \A i, j \in 1..Len(calls) :
          (i < j /\ SameCached(calls[i], calls[j])
               /\ calls[i].ret # NotCached /\ calls[j].ret # NotCached)
              => calls[j].ret = calls[i].ret
    /\ \A i, j \in 1..Len(calls) :
          (calls[i].obj = calls[j].obj /\ calls[i].args # calls[j].args
               /\ calls[i].ret # NotCached /\ calls[j].ret # NotCached)
              => calls[j].ret # calls[i].ret

\* C29: calls of a cached callable, coroutine or generator with equal
\* arguments return the value the first of them computed and do not run the
\* wrapped function again, other arguments are cached apart, until a clear of
\* that object: clear_cache(name) clears the objects kept under the name and no
\* other, clear_cache() all, and the next call computes anew.
C29_CachedByArguments == CachedOnce(cache_st.calls)

\* the same while no call of a coroutine or generator began, and no cache was
\* cleared, during a run of the wrapped function for the same arguments
SequentialCaching == ~cache_st.overlap => CachedOnce(cache_st.calls)

\* the handler task of request r takes its first step, into the handler body
FirstStep(r) ==
    /\ handler[r].st = "scheduled"
    /\ ~handler[r].must_cancel
    /\ handler'[r].st # "scheduled"

\* the handler of request r has begun and its task is stored under its id
Registered(r) ==
    inbound[r].id \in DOMAIN tasks /\ tasks[inbound[r].id] = r

\* C31: a request that has a dispatch target is in self.tasks under its id
\* when the first step of its handler runs, and from then on until a
\* cancellation notification for that id takes it out: a cancellation that
\* comes after the handler began finds the id.
C31_RegisteredBeforeHandlerRuns ==
    [][\A r \in Reqs :
          /\ FirstStep(r) => Registered(r)
          /\ (handler[r].st \notin {"none", "scheduled"} /\ Registered(r) /\ ~Registered(r)')
                => delivered' = Line("cancel", inbound[r].id, "none", "none")]_vars

\* a cancellation that came while the handler was suspended in its body, and
\* found the task under the id
C31_Witness ==
    \E r \in Reqs :
        /\ delivered = Line("cancel", inbound[r].id, "none", "none")
        /\ handler[r].invoked > 0
        /\ handler[r].st = "suspended"
        /\ r \in cancel_succeeded
        /\ inbound[r].id \notin DOMAIN tasks

\* C32: the processing of the lines takes its first step in the order the
\* lines were read, whatever the order in which it ends.
C32_StartedInOrderRead ==
    /\ Len(loop_st.started) <= Len(loop_st.read)
    /\ loop_st.started = SubSeq(loop_st.read, 1, Len(loop_st.started))

\* two Requests started in the order read and answered in the other order
C32_Witness ==
    /\ Len(loop_st.started) >= 2
    /\ loop_st.started[1] = 1 /\ loop_st.started[2] = 2
    /\ Len(loop_st.written) >= 2
    /\ loop_st.written[1] = 2 /\ loop_st.written[2] = 1

\* C36: once start_listening has met the end of the stream it has returned
\* or is suspended, and the tasks in flight go on.
C36_StopsAtEndOfFile ==
    loop_st.at_eof => loop_st.listen \in {"returned", "waiting"}

\* C33: a step that handles an error Response for an id whose future is done
\* already (its caller gave up while the id was in the table) raises nothing,
\* as the step that handles a late success Response does.
C33_LateErrorDropped ==
    [][delivered'.kind \in {"result", "error"} => delivered'.raised = "none"]_vars

\* C34: the ids in self.requests are the ids of the callers suspended in
\* request(), each under its own caller.
C34_PendingTableIsSuspendedCallers ==
    /\ DOMAIN requests = {callers[c].rid : c \in {x \in Callers : callers[x].st = "waiting"}}
    /\ \A id \in DOMAIN requests : callers[requests[id]].rid = id

\* a step in which plugin.metadata is read, and what the read gave
Accessed == Len(meta_st'.log) = Len(meta_st.log) + 1
LastAccess == meta_st'.log[Len(meta_st'.log)]
\* a step in which an initialize request is processed, and that request
Initialized == meta_st'.processed = meta_st.processed + 1
\* a step in which a response is written, and that response
Answered == Len(meta_st'.responses) = Len(meta_st.responses) + 1
LastResponse == meta_st'.responses[Len(meta_st'.responses)]

\* C35: plugin.metadata raises PluginNotInitialized as long as no initialize
\* request has been processed; processing one stores the metadata of its
\* argument and dispatches the initialization event, its response is an
\* ExecuteResponse whose hide is false, and from then on plugin.metadata
\* returns the metadata that is stored
C35_MetadataAfterInitialize ==
    [][/\ Accessed =>
            IF meta_st.processed = 0
            THEN LastAccess.raised = "PluginNotInitialized"
            ELSE /\ LastAccess.raised = "none"
                 /\ LastAccess.value = meta_st.metadata
                 /\ LastAccess.value \in MetadataValues
       /\ Initialized =>
            /\ meta_st'.metadata = Head(meta_st.ready).arg
            /\ meta_st'.dispatched = Append(meta_st.dispatched, "initialization")
            /\ "on_initialization" \in meta_st.events =>
                  \E i \in 1..Len(meta_st'.ready) :
                      meta_st'.ready[i].method = "on_initialization"
       /\ Answered =>
            /\ LastResponse.type = "ExecuteResponse"
            /\ LastResponse.hide = FALSE
            /\ LastResponse.id <= meta_st.processed]_vars

\* read before the initialize request with the exception, the request
\* answered, and read after it with the metadata of the request
C35_Witness ==
    /\ meta_st # NoMeta
    /\ Len(meta_st.log) >= 2
    /\ meta_st.log[1].raised = "PluginNotInitialized"
    /\ meta_st.log[Len(meta_st.log)].raised = "none"
    /\ meta_st.log[Len(meta_st.log)].value = meta_st.metadata
    /\ meta_st.processed >= 1
    /\ Len(meta_st.responses) >= 1
    /\ meta_st.dispatched # <<>>


\* the call that ran the wrapped coroutine for a value, started when its
\* object had been cleared n times
ComputedSince(value, obj, n) ==
    \E c \in 1..Len(cache_st.calls) :
        /\ cache_st.calls[c].ran
        /\ cache_st.calls[c].obj = obj
        /\ cache_st.calls[c].value = value
        /\ cache_st.calls[c].cleared = n

\* C37: what the cache of a cached coroutine holds, and what a call is served
\* from it, was computed by a call started after the last clear_cache of the
\* coroutine, never by one started before it
C37_NothingFromBeforeTheClear ==
    \A obj \in DOMAIN CachedObjects :
        CachedObjects[obj].cls = "CachedCoro" =>
            /\ \A args \in CacheArgs :
                  cache_st.cache[obj][args] # NotCached =>
                      ComputedSince(cache_st.cache[obj][args], obj, cache_st.cleared[obj])
            /\ \A c \in 1..Len(cache_st.calls) :
                  (cache_st.calls[c].obj = obj /\ ~cache_st.calls[c].ran) =>
                      ComputedSince(cache_st.calls[c].ret, obj, cache_st.calls[c].cleared)

\* C38: a cached property is cached for each instance: what a read of it on
\* an instance returns was computed with that instance, whatever reads and
\* clears came before
C38_CachedPerInstance ==
    \A g \in 1..Len(prop_st.got) :
        prop_st.got[g].value.instance = prop_st.got[g].instance

\* C39: every key of the changes the Settings object has not sent yet has, in
\* the data of the Settings, the value the changes hold for it, also after
\* the settings of the host were applied between the set and the next flush
C39_ChangesAgreeWithData ==
    \A key \in SettingKeys :
        settings_st.changes[key] # NoValue =>
            settings_st.data[key] = settings_st.changes[key]

====
